---- MODULE Spec2Model ----
(***************************************************************************)
(* Offline-first write queue and synchronisation engine of Fairly:         *)
(* OfflineStorage (local store), OfflineDataService (facade) and           *)
(* OfflineSyncService (sync engine), useNetworkStatus (network monitor),    *)
(* OfflineProvider and OfflineIndicator (the triggers of the sync engine), *)
(* together with an abstract remote document store standing for Firestore. *)
(***************************************************************************)
EXTENDS Integers, Sequences, FiniteSets, TLC

(***************************************************************************)
(* Bounds of the model.                                                    *)
(***************************************************************************)
\* number of mutating facade calls (each draws one nanoid / temporary id)
MaxOps == 2
\* number of documents the remote store creates (ids it assigns)
MaxRemote == 2
\* number of mutating facade calls suspended on a remote call at the same time
MaxInflight == 1
\* number of getDocument calls suspended on their getDoc at the same time
MaxReads == 1
\* number of times local storage becomes unavailable
MaxFaults == 1
\* the clock advances at most to this value
MaxNow == 2
\* number of 3000 ms timers of the network monitor pending at the same time
MaxTimers == 2

\* retry ceiling of the sync engine: "if (newRetryCount >= 3)"
RetryCeiling == 3

(***************************************************************************)
(* Input domains.                                                          *)
(***************************************************************************)
\* collection names the facade is called with: two the local store knows
\* and one it does not
Collections == {"groups", "expenses", "settlements"}

\* document ids: <<"doc", n>> exist before the run, <<"temp", n>> are the
\* facade's temporary ids, <<"remote", n>> are assigned by the remote store
KnownIds == {<<"doc", 1>>}
TempId(n) == <<"temp", n>>
RemoteId(n) == <<"remote", n>>
\* a field that is not there (JavaScript undefined)
Undefined == <<"undefined", 0>>
\* an operation without documentId (CREATE)
NoId == <<"", 0>>

\* field values carry their JavaScript type
Str(s) == <<"string", s>>
Num(n) == <<"number", n>>
Bool(b) == <<"boolean", b>>
\* timestamps: a Firestore Timestamp object and an ISO string of the same instant
Ts(n) == <<"Timestamp", n>>
Iso(n) == <<"iso", n>>

\* payloads and patches the application passes to the facade
CreatePayloads == {[name |-> Str("A"), amount |-> Num(50)]}
Patches == {[name |-> Str("B")]}

\* the document the remote store holds for every (collection, known id) at start
SeedDoc == [name |-> Str("S"), amount |-> Num(10)]

(***************************************************************************)
(* JavaScript values: null, an object (function from keys to values), an   *)
(* array (sequence).                                                       *)
(***************************************************************************)
Null == [t |-> "null"]
Obj(d) == [t |-> "object", v |-> d]
Arr(s) == [t |-> "array", v |-> s]
Truthy(x) == x.t # "null"

EmptyObj == [k \in {} |-> 0]

\* { ...a, ...b } on plain objects
Merge(a, b) ==
  [k \in (DOMAIN a) \cup (DOMAIN b) |-> IF k \in DOMAIN b THEN b[k] ELSE a[k]]

\* the own enumerable properties a spread copies out of a JavaScript value
Spread(x) ==
  CASE x.t = "object" -> x.v
    [] x.t = "array" -> [k \in {ToString(i - 1) : i \in 1..Len(x.v)} |->
                           x.v[(CHOOSE i \in 1..Len(x.v) : ToString(i - 1) = k)]]
    [] OTHER -> EmptyObj

\* obj.key, undefined when the key is missing
Get(d, k) == IF k \in DOMAIN d THEN d[k] ELSE Undefined

\* JSON.parse(JSON.stringify(d)) on a plain object: keys whose value is
\* undefined are not serialised
Json(d) == [k \in {x \in DOMAIN d : d[x] # Undefined} |-> d[k]]

\* delete obj[key] / obj[key] = value on a map from ids to values
Range(seq) == {seq[k] : k \in 1..Len(seq)}
Without(m, id) == [k \in (DOMAIN m) \ {id} |-> m[k]]
With(m, id, val) == [k \in (DOMAIN m) \cup {id} |-> IF k = id THEN val ELSE m[k]]

(***************************************************************************)
(* State.                                                                  *)
(***************************************************************************)
VARIABLES
  storageOK,     \* whether localStorage can be written (isStorageAvailable)
  localStorage,  \* the four items of STORAGE_KEYS, Null when absent
  onLine,        \* navigator.onLine
  now,           \* Date.now(), a logical clock
  remote,        \* the remote store: <<collection, id>> -> document
  nextRemote,    \* number of ids the remote store has assigned
  nextId,        \* number of nanoid / temporary ids drawn
  isSyncing,     \* OfflineSyncService.isSyncing
  pass,          \* the running syncOfflineOperations call, if any
  summary,       \* the counts the latest finished pass reported
  inflight,      \* facade calls suspended on their remote call
  monitor,       \* useNetworkStatus and the auto-sync effect of OfflineProvider
  hist           \* history of the run, read by the properties only

vars == <<storageOK, localStorage, onLine, now, remote, nextRemote, nextId,
          isSyncing, pass, summary, inflight, monitor, hist>>

(***************************************************************************)
(* OfflineStorage.  Every method takes the store it reads and returns      *)
(* either the value read or the store it leaves behind.                    *)
(***************************************************************************)
OFFLINE_DATA == "fairly_offline_data"
OPERATION_QUEUE == "fairly_operation_queue"
NETWORK_STATUS == "fairly_network_status"
LAST_SYNC == "fairly_last_sync"
STORAGE_KEYS == {OFFLINE_DATA, OPERATION_QUEUE, NETWORK_STATUS, LAST_SYNC}

isStorageAvailable(ok) == ok

EmptyOfflineData ==
  [groups |-> EmptyObj, expenses |-> EmptyObj, users |-> EmptyObj, lastSync |-> 0]

getOfflineData(ok, ls) ==
  IF ~isStorageAvailable(ok) THEN EmptyOfflineData
  ELSE IF Truthy(ls[OFFLINE_DATA]) THEN ls[OFFLINE_DATA].v ELSE EmptyOfflineData

saveOfflineData(ok, ls, data) ==
  IF ~isStorageAvailable(ok) THEN ls
  ELSE [ls EXCEPT ![OFFLINE_DATA] = Obj(Merge(getOfflineData(ok, ls), data))]

\* offlineData.expenses[id].findIndex(exp => exp.id === data.id), 0 for -1
FindIndex(list, data) ==
  IF \E i \in 1..Len(list) : Get(list[i], "id") = Get(data, "id")
  THEN CHOOSE i \in 1..Len(list) :
         /\ Get(list[i], "id") = Get(data, "id")
         /\ \A j \in 1..(i - 1) : Get(list[j], "id") # Get(data, "id")
  ELSE 0

cacheDocument(ok, ls, collection, id, data, t) ==
  LET offlineData == getOfflineData(ok, ls)
      stamped == Merge(data, [_cachedAt |-> Num(t)])
      list == IF id \in DOMAIN offlineData.expenses
              THEN offlineData.expenses[id] ELSE <<>>
      existingIndex == FindIndex(list, data)
      updated ==
        CASE collection = "groups" ->
               [offlineData EXCEPT !.groups =
                  With(@, id, Json(Merge(stamped, [id |-> id])))]
          [] collection = "expenses" ->
               [offlineData EXCEPT !.expenses =
                  With(@, id, IF existingIndex > 0
                              THEN [list EXCEPT ![existingIndex] = Json(stamped)]
                              ELSE Append(list, Json(stamped)))]
          [] collection = "users" ->
               [offlineData EXCEPT !.users =
                  With(@, id, Json(Merge(stamped, [id |-> id])))]
          [] OTHER -> offlineData
  IN saveOfflineData(ok, ls, updated)

getCachedDocument(ok, ls, collection, id) ==
  LET offlineData == getOfflineData(ok, ls)
  IN CASE collection = "groups" ->
            IF id \in DOMAIN offlineData.groups
            THEN Obj(offlineData.groups[id]) ELSE Null
       [] collection = "expenses" ->
            IF id \in DOMAIN offlineData.expenses
            THEN Arr(offlineData.expenses[id]) ELSE Null
       [] collection = "users" ->
            IF id \in DOMAIN offlineData.users
            THEN Obj(offlineData.users[id]) ELSE Null
       [] OTHER -> Null

removeCachedDocument(ok, ls, collection, id) ==
  LET offlineData == getOfflineData(ok, ls)
      updated ==
        CASE collection = "groups" ->
               [offlineData EXCEPT !.groups = Without(@, id)]
          [] collection = "expenses" ->
               [offlineData EXCEPT !.expenses = Without(@, id)]
          [] collection = "users" ->
               [offlineData EXCEPT !.users = Without(@, id)]
          [] OTHER -> offlineData
  IN saveOfflineData(ok, ls, updated)

\* a stored queue text in which one record cannot be parsed; good are the
\* records around it
Corrupt(good) == [t |-> "corrupt", v |-> good]

getOperationQueue(ok, ls) ==
  IF ~isStorageAvailable(ok) THEN <<>>
  ELSE IF ~Truthy(ls[OPERATION_QUEUE]) THEN <<>>
  ELSE IF ls[OPERATION_QUEUE].t = "corrupt" THEN <<>>  \* JSON.parse throws: catch
  ELSE ls[OPERATION_QUEUE].v

\* addToQueue with unshift in place of push
addToQueue_unshift(ok, ls, operation, id, t) ==
  IF ~isStorageAvailable(ok) THEN ls
  ELSE LET queue == getOperationQueue(ok, ls)
           newOperation ==
             [id |-> id, type |-> operation.type,
              collection |-> operation.collection,
              documentId |-> operation.documentId, data |-> operation.data,
              timestamp |-> t, retryCount |-> 0]
       IN [ls EXCEPT ![OPERATION_QUEUE] = Arr(<<newOperation>> \o queue)]

\* operation: [type, collection, documentId, data]; id is the nanoid drawn
addToQueue(ok, ls, operation, id, t) ==
  IF ~isStorageAvailable(ok) THEN ls
  ELSE LET queue == getOperationQueue(ok, ls)
           newOperation ==
             [id |-> id, type |-> operation.type,
              collection |-> operation.collection,
              documentId |-> operation.documentId, data |-> operation.data,
              timestamp |-> t, retryCount |-> 0]
       IN [ls EXCEPT ![OPERATION_QUEUE] = Arr(Append(queue, newOperation))]

removeFromQueue(ok, ls, operationId) ==
  IF ~isStorageAvailable(ok) THEN ls
  ELSE LET queue == getOperationQueue(ok, ls)
       IN [ls EXCEPT ![OPERATION_QUEUE] =
             Arr(SelectSeq(queue, LAMBDA op : op.id # operationId))]

\* updateOperationRetry with filter in place of map
updateOperationRetry_filter(ok, ls, operationId, retryCount) ==
  IF ~isStorageAvailable(ok) THEN ls
  ELSE LET queue == getOperationQueue(ok, ls)
           kept == SelectSeq(queue, LAMBDA op : op.id = operationId)
       IN [ls EXCEPT ![OPERATION_QUEUE] =
             Arr([i \in 1..Len(kept) |->
                    [kept[i] EXCEPT !.retryCount = retryCount]])]

\* updateOperationRetry taking the operation out and pushing the updated copy
updateOperationRetry_requeue(ok, ls, operationId, retryCount) ==
  IF ~isStorageAvailable(ok) THEN ls
  ELSE LET queue == getOperationQueue(ok, ls)
           others == SelectSeq(queue, LAMBDA op : op.id # operationId)
           found == SelectSeq(queue, LAMBDA op : op.id = operationId)
       IN [ls EXCEPT ![OPERATION_QUEUE] =
             Arr(others \o [i \in 1..Len(found) |->
                              [found[i] EXCEPT !.retryCount = retryCount]])]

\* updateOperationRetry without the test of the id
updateOperationRetry_all(ok, ls, operationId, retryCount) ==
  IF ~isStorageAvailable(ok) THEN ls
  ELSE LET queue == getOperationQueue(ok, ls)
       IN [ls EXCEPT ![OPERATION_QUEUE] =
             Arr([i \in 1..Len(queue) |->
                    [queue[i] EXCEPT !.retryCount = retryCount]])]

\* updateOperationRetry adding a record when no operation has the id
updateOperationRetry_upsert(ok, ls, operationId, retryCount) ==
  IF ~isStorageAvailable(ok) THEN ls
  ELSE LET queue == getOperationQueue(ok, ls)
           mapped == [i \in 1..Len(queue) |->
                        IF queue[i].id = operationId
                        THEN [queue[i] EXCEPT !.retryCount = retryCount]
                        ELSE queue[i]]
       IN [ls EXCEPT ![OPERATION_QUEUE] =
             Arr(IF \E i \in 1..Len(queue) : queue[i].id = operationId
                 THEN mapped
                 ELSE Append(mapped,
                             [id |-> operationId, type |-> "UPDATE",
                              collection |-> "groups", documentId |-> Undefined,
                              data |-> Null, timestamp |-> 0,
                              retryCount |-> retryCount]))]

updateOperationRetry(ok, ls, operationId, retryCount) ==
  IF ~isStorageAvailable(ok) THEN ls
  ELSE LET queue == getOperationQueue(ok, ls)
       IN [ls EXCEPT ![OPERATION_QUEUE] =
             Arr([i \in 1..Len(queue) |->
                    IF queue[i].id = operationId
                    THEN [queue[i] EXCEPT !.retryCount = retryCount]
                    ELSE queue[i]])]

\* localStorage.setItem throws when the storage is disabled or full
setItemThrows(ok) == ~ok

\* a write method without the isStorageAvailable test and the try/catch
WriteOutcome_unguarded(ok) == IF setItemThrows(ok) THEN "raise" ELSE "void"

\* what a write method (saveOfflineData under cacheDocument and
\* removeCachedDocument, addToQueue, removeFromQueue, updateOperationRetry,
\* setLastSync) gives its caller: "void" (it returns nothing), "raise" (it
\* throws) or "unavailable" (it reports that storage is unavailable)
WriteOutcome(ok) ==
  IF ~isStorageAvailable(ok) THEN "void"      \* the early return
  ELSE IF setItemThrows(ok) THEN "void"       \* caught and logged
  ELSE "void"

setLastSync(ok, ls, timestamp) ==
  IF ~isStorageAvailable(ok) THEN ls
  ELSE [ls EXCEPT ![LAST_SYNC] = Obj(timestamp)]

getLastSync(ok, ls) ==
  IF ~isStorageAvailable(ok) THEN 0
  ELSE IF Truthy(ls[LAST_SYNC]) THEN ls[LAST_SYNC].v ELSE 0

setNetworkStatus(ok, ls, online, t) ==
  IF ~isStorageAvailable(ok) THEN ls
  ELSE [ls EXCEPT ![NETWORK_STATUS] =
          Obj([isOnline |-> online, timestamp |-> t])]

getNetworkStatus(ok, ls) ==
  IF ~isStorageAvailable(ok) THEN Null ELSE ls[NETWORK_STATUS]

\* clearAll removing the cached documents and the queue only
clearAll_dataOnly(ok, ls) ==
  IF ~isStorageAvailable(ok) THEN ls
  ELSE [k \in STORAGE_KEYS |->
          IF k \in {OFFLINE_DATA, OPERATION_QUEUE} THEN Null ELSE ls[k]]

clearAll(ok, ls) ==
  IF ~isStorageAvailable(ok) THEN ls
  ELSE [k \in STORAGE_KEYS |-> Null]

(***************************************************************************)
(* getStorageInfo: new Blob([item]).size is the number of bytes of the     *)
(* JSON text of the item.  The texts of the model's values are ASCII.      *)
(***************************************************************************)
RECURSIVE SumOf(_)
\* the sum of the values of a function to the naturals
SumOf(f) ==
  IF DOMAIN f = {} THEN 0
  ELSE LET k == CHOOSE x \in DOMAIN f : TRUE
       IN f[k] + SumOf([j \in (DOMAIN f) \ {k} |-> f[j]])

\* decimal digits of a counter of the model
Digits(n) == IF n < 10 THEN 1 ELSE IF n < 100 THEN 2 ELSE 3
\* digits of Date.now()
DateSize == Digits(1) + 12
\* characters of the names the model writes as keys or string values
NameSize(k) ==
  CASE k \in {"0", "1", "2", "3"} -> 1
    [] k = "id" -> 2
    [] k \in {"name", "type", "data"} -> 4
    [] k = "users" -> 5
    [] k \in {"amount", "groups", "CREATE", "UPDATE", "DELETE"} -> 6
    [] k \in {"expenses", "lastSync", "isOnline"} -> 8
    [] k \in {"createdAt", "updatedAt", "_cachedAt", "timestamp"} -> 9
    [] k \in {"_isOffline", "collection", "documentId", "retryCount"} -> 10
    [] k = "settlements" -> 11
    [] OTHER -> 1
\* characters of a document id: Firestore ids have 20, a temporary id is
\* temp_<Date.now()>_<9 characters>
IdSize(id) ==
  CASE id[1] = "temp" -> 5 + DateSize + 1 + 9
    [] id[1] = "" -> 0
    [] OTHER -> 20
\* "{" members "}" or "[" elements "]", sizes holding the size of each
\* member or element
BracketSize(sizes) ==
  LET n == Cardinality(DOMAIN sizes)
  IN 2 + SumOf(sizes) + (IF n > 0 THEN n - 1 ELSE 0)
\* a field value that is not an object
ValueSize(k, x) ==
  CASE k = "_cachedAt" -> DateSize
    [] x[1] = "string" -> 3
    [] x[1] = "number" -> Digits(x[2])
    [] x[1] = "boolean" -> IF x[2] THEN 4 ELSE 5
    [] x[1] = "iso" -> 26
    [] x[1] = "Timestamp" -> 38   \* {"seconds":1700000000,"nanoseconds":0}
    [] OTHER -> IdSize(x) + 2
RECURSIVE DocSize(_)
\* a document; the fields "0", "1", ... left by the spread of an array hold
\* documents
DocSize(d) ==
  BracketSize([k \in DOMAIN d |->
                 NameSize(k) + 3 + (IF k \in {"0", "1", "2", "3"}
                                    THEN DocSize(d[k]) ELSE ValueSize(k, d[k]))])
\* a queued operation: undefined fields are not written
OpSize(op) ==
  BracketSize(
    [k \in {"id", "type", "collection", "timestamp", "retryCount"}
          \cup (IF op.documentId # Undefined THEN {"documentId"} ELSE {})
          \cup (IF Truthy(op.data) THEN {"data"} ELSE {}) |->
       NameSize(k) + 3 +
         CASE k = "id" -> 21 + 2
           [] k = "type" -> NameSize(op.type) + 2
           [] k = "collection" -> NameSize(op.collection) + 2
           [] k = "timestamp" -> DateSize
           [] k = "retryCount" -> Digits(op.retryCount)
           [] k = "documentId" -> IdSize(op.documentId) + 2
           [] OTHER -> DocSize(op.data.v)])
\* the size of the item stored under key
ItemSize(key, item) ==
  IF ~Truthy(item) THEN 0
  ELSE CASE key = OPERATION_QUEUE ->
              BracketSize([i \in 1..Len(item.v) |-> OpSize(item.v[i])])
                + (IF item.t = "corrupt" THEN 1 ELSE 0)
         [] key = LAST_SYNC -> DateSize
         [] key = NETWORK_STATUS ->
              BracketSize([k \in {"isOnline", "timestamp"} |->
                             NameSize(k) + 3 +
                               (IF k = "timestamp" THEN DateSize
                                ELSE IF item.v.isOnline THEN 4 ELSE 5)])
         [] OTHER ->
              BracketSize(
                [k \in {"groups", "expenses", "users", "lastSync"} |->
                   NameSize(k) + 3 +
                     CASE k = "lastSync" -> 1
                       [] k = "expenses" ->
                            BracketSize(
                              [id \in DOMAIN item.v.expenses |->
                                 IdSize(id) + 3 +
                                   BracketSize(
                                     [i \in 1..Len(item.v.expenses[id]) |->
                                        DocSize(item.v.expenses[id][i])])])
                       [] OTHER ->
                            BracketSize([id \in DOMAIN item.v[k] |->
                                           IdSize(id) + 3 + DocSize(item.v[k][id])])])

\* a JavaScript number that is the quotient n / d
Ratio(n, d) == IF n = 0 THEN <<0, 1>> ELSE <<n, d>>

\* getStorageInfo with a budget of 5 000 000 bytes
getStorageInfo_decimal(ok, ls) ==
  IF ~isStorageAvailable(ok)
  THEN [used |-> 0, available |-> 0, percentage |-> Ratio(0, 1)]
  ELSE LET used == SumOf([key \in STORAGE_KEYS |-> ItemSize(key, ls[key])])
           available == 5 * 1000 * 1000
       IN [used |-> used, available |-> available,
           percentage |-> Ratio(used * 100, available)]

getStorageInfo(ok, ls) ==
  IF ~isStorageAvailable(ok)
  THEN [used |-> 0, available |-> 0, percentage |-> Ratio(0, 1)]
  ELSE LET used == SumOf([key \in STORAGE_KEYS |-> ItemSize(key, ls[key])])
           available == 5 * 1024 * 1024
       IN [used |-> used, available |-> available,
           percentage |-> Ratio(used * 100, available)]

(***************************************************************************)
(* The remote document store (Firestore): point operations only.           *)
(***************************************************************************)
RemoteExists(r, collection, id) == <<collection, id>> \in DOMAIN r

\* addDoc: the store assigns the id
RemoteAdd(r, collection, id, data) == With(r, <<collection, id>>, data)
\* updateDoc: merges the patch into the stored document
RemoteUpdate(r, collection, id, data) ==
  With(r, <<collection, id>>, Merge(r[<<collection, id>>], data))
\* deleteDoc
RemoteDelete(r, collection, id) == Without(r, <<collection, id>>)

(***************************************************************************)
(* History variables: what the properties need to remember of the run.     *)
(***************************************************************************)
OpIds == 1..MaxOps

\* the listeners of the sync status: the one OfflineProvider adds and the
\* one OfflineIndicator adds
Listeners == {"provider", "indicator"}

\* counters of the history stop at this value
Cap(n) == IF n > RetryCeiling + 1 THEN RetryCeiling + 1 ELSE n

InitHist ==
  [ calls |-> 0,                       \* mutating facade calls made
    attempts |-> [i \in OpIds |-> 0],  \* sync passes that attempted the operation
    applied |-> [i \in OpIds |-> 0],   \* attempts of the operation that succeeded
    enqueuedInPass |-> {},             \* ids enqueued while the pass runs
    passLog |-> <<>>,                  \* ids applied by the latest pass, in order
    notified |-> 0,                    \* notifySyncStatus calls, modulo 2
    rejected |-> FALSE,                \* the guard turned a call away in this pass
    finished |-> 0,                    \* Date.now() when the latest call the guard let through returned
    raised |-> FALSE,                  \* a facade call threw to its caller
    read |-> "none",                   \* what getDocument calls without a fresh value returned so far
    faults |-> 0,                      \* times local storage became unavailable
    since |-> 0,                       \* timers still to fire until the one of the latest Online to Offline transition has fired
    owed |-> FALSE,                    \* the monitor came online over a non-empty queue and no pass has started since
    overtaken |-> {},                  \* queued updates older than an update the facade has applied directly to the same document
    tempDoc |-> [i \in OpIds |-> -1],  \* for the Create with the id (its temporary id has the same number): 0 while no pass has applied it, then the number of the remote id addDoc gave
    gone |-> {},                       \* numbers of the temporary ids for which a Delete was queued before a pass applied the Create
    cleared |-> {},                    \* operations that clearAllOfflineData took out of the queue while no remote call of a pass was under way for them
    \* the subscribers of the sync status, kept in this record because every
    \* step of a pass already writes it
    listeners |-> {},                       \* syncListeners of OfflineSyncService
    told |-> [l \in Listeners |-> "none"],  \* the value the listener was called with last
    heard |-> [l \in Listeners |-> 0],      \* calls of the listener, modulo 2
    indicator |-> [pending |-> -1,          \* syncStats.pendingOperations of OfflineIndicator, -1 while it is not mounted
                   timeout |-> FALSE,       \* its 1000 ms auto-sync timeout is pending
                   awaiting |-> FALSE] ]    \* its handleSync awaits the pass

(***************************************************************************)
(* OfflineSyncService.                                                     *)
(***************************************************************************)
\* the dependencies of the auto-sync effect of OfflineIndicator: isOnline,
\* syncStats.pendingOperations and its isSyncing state, which starts false
\* and is set by its listener
IndicatorDeps(online, h) ==
  <<online, h.indicator.pending, h.told["indicator"] = "true">>

\* the auto-sync effect of OfflineIndicator after the render that shows
\* (online, h) in place of (prevOnline, prev): when a dependency changed it
\* clears its timeout and sets a new one if the client is online, operations
\* are pending and no sync is shown as running
IndicatorEffect(prevOnline, prev, online, h) ==
  IF h.indicator.pending < 0
     \/ IndicatorDeps(prevOnline, prev) = IndicatorDeps(online, h)
  THEN h
  ELSE [h EXCEPT !.indicator.timeout =
                    /\ online
                    /\ h.indicator.pending > 0
                    /\ h.told["indicator"] # "true"]

\* notifySyncStatus calling every listener, subscribed or not
notifySyncStatus_all(h, value) ==
  IndicatorEffect(monitor.isOnline, h, monitor.isOnline,
    [h EXCEPT !.notified = 1 - @,
              !.told = [l \in Listeners |-> value],
              !.heard = [l \in Listeners |-> 1 - h.heard[l]]])

\* notifySyncStatus(value): every listener in syncListeners is called with
\* the value; the listener of OfflineIndicator sets its isSyncing state
notifySyncStatus(h, value) ==
  IndicatorEffect(monitor.isOnline, h, monitor.isOnline,
    [h EXCEPT !.notified = 1 - @,
              !.told = [l \in Listeners |->
                          IF l \in h.listeners THEN value ELSE h.told[l]],
              !.heard = [l \in Listeners |->
                           IF l \in h.listeners THEN 1 - h.heard[l]
                           ELSE h.heard[l]]])

\* the rest of handleSync of OfflineIndicator after the pass it awaited:
\* setSyncStats(getSyncStats()); ls is the store the pass leaves
PassReturned(h, ls) ==
  IF h.indicator.awaiting
  THEN IndicatorEffect(monitor.isOnline, h, monitor.isOnline,
         [h EXCEPT !.indicator.awaiting = FALSE,
                   !.indicator.pending = Len(getOperationQueue(storageOK, ls))])
  ELSE h

IdlePass == [pc |-> "idle", queue |-> <<>>, i |-> 0,
             successCount |-> 0, errorCount |-> 0]

\* where processOperation first suspends for this operation: "throw" when it
\* rejects before any remote call
Stage(operation) ==
  CASE operation.type = "CREATE" ->
         IF ~Truthy(operation.data) THEN "throw" ELSE "write"
    [] operation.type \in {"UPDATE", "DELETE"} ->
         IF operation.documentId \in {NoId, Undefined} THEN "throw" ELSE "getDoc"
    [] OTHER -> "throw"

\* syncOfflineOperations without its guard
SyncRejected_never(syncing) == FALSE

\* the re-entrancy guard at the top of syncOfflineOperations
SyncRejected(syncing) == syncing

\* the ids of a queue, in order
Ids(queue) == [i \in 1..Len(queue) |-> queue[i].id]

\* the current operation of the pass
CurrentOp == pass.queue[pass.i]

\* syncOfflineOperations is called (manual button, OfflineProvider or
\* OfflineIndicator timer); runs up to the first await
SyncStart(h) ==
  LET queue == getOperationQueue(storageOK, localStorage)
  IN /\ IF SyncRejected(isSyncing) \/ Len(queue) = 0
        THEN /\ hist' = [h EXCEPT !.rejected = @ \/ SyncRejected(isSyncing),
                                  !.finished =
                                     IF SyncRejected(isSyncing) THEN @ ELSE now]
             /\ UNCHANGED <<isSyncing, pass>>
        ELSE /\ isSyncing' = TRUE
             /\ pass' = [pc |-> Stage(queue[1]), queue |-> queue, i |-> 1,
                         successCount |-> 0, errorCount |-> 0]
             /\ hist' = notifySyncStatus([h EXCEPT !.rejected = FALSE,
                                                    !.enqueuedInPass = {},
                                                    !.passLog = <<>>],
                                          "true")
     /\ UNCHANGED <<storageOK, localStorage, onLine, now, remote, nextRemote,
                    nextId, summary, inflight>>

\* a call from the sync button of OfflineIndicator
SyncCall == SyncStart(hist) /\ UNCHANGED monitor

\* the ceiling test with > in place of >=
GiveUp_late(newRetryCount) == newRetryCount > RetryCeiling

\* the retry ceiling test of the catch block
GiveUp(newRetryCount) == newRetryCount >= RetryCeiling

\* the store after the try block's success path / the catch block
AfterSuccess(ok, ls, operation) == removeFromQueue(ok, ls, operation.id)

\* the catch block taking the document of a dropped operation out of the cache
AfterFailure_rollback(ok, ls, operation) ==
  LET newRetryCount == operation.retryCount + 1
      ls1 == updateOperationRetry(ok, ls, operation.id, newRetryCount)
  IN IF GiveUp(newRetryCount)
     THEN removeCachedDocument(ok, removeFromQueue(ok, ls1, operation.id),
                               operation.collection, operation.documentId)
     ELSE ls1

AfterFailure(ok, ls, operation) ==
  LET newRetryCount == operation.retryCount + 1
      ls1 == updateOperationRetry(ok, ls, operation.id, newRetryCount)
  IN IF GiveUp(newRetryCount) THEN removeFromQueue(ok, ls1, operation.id) ELSE ls1

\* the loop without its inner try/catch: a failure leaves the loop for the
\* outer catch and the finally block
Advance_abort(ls, h, succeeded) ==
  IF pass.i < Len(pass.queue) /\ succeeded
  THEN /\ pass' = [pass EXCEPT
                     !.i = @ + 1,
                     !.pc = Stage(pass.queue[pass.i + 1]),
                     !.successCount = @ + 1]
       /\ localStorage' = ls
       /\ hist' = h
       /\ UNCHANGED <<isSyncing, summary>>
  ELSE /\ pass' = IdlePass
       /\ localStorage' = IF succeeded THEN setLastSync(storageOK, ls, now) ELSE ls
       /\ summary' =
            [successCount |-> pass.successCount + (IF succeeded THEN 1 ELSE 0),
             errorCount |-> pass.errorCount + (IF succeeded THEN 0 ELSE 1)]
       /\ isSyncing' = FALSE
       /\ hist' = PassReturned(notifySyncStatus([h EXCEPT !.rejected = FALSE,
                                                          !.finished = now],
                                                "false"), ls)

\* the pass without its finally block: isSyncing is never reset and the
\* listeners are not told
Advance_nofinally(ls, h, succeeded) ==
  IF pass.i < Len(pass.queue)
  THEN /\ pass' = [pass EXCEPT
                     !.i = @ + 1,
                     !.pc = Stage(pass.queue[pass.i + 1]),
                     !.successCount = @ + (IF succeeded THEN 1 ELSE 0),
                     !.errorCount = @ + (IF succeeded THEN 0 ELSE 1)]
       /\ localStorage' = ls
       /\ hist' = h
       /\ UNCHANGED <<isSyncing, summary>>
  ELSE /\ pass' = IdlePass
       /\ localStorage' = setLastSync(storageOK, ls, now)
       /\ summary' =
            [successCount |-> pass.successCount + (IF succeeded THEN 1 ELSE 0),
             errorCount |-> pass.errorCount + (IF succeeded THEN 0 ELSE 1)]
       /\ hist' = PassReturned([h EXCEPT !.finished = now], ls)
       /\ UNCHANGED isSyncing

\* the loop counting a failure only when the operation is dropped
Advance_countDrops(ls, h, succeeded) ==
  LET failed == IF ~succeeded /\ GiveUp(CurrentOp.retryCount + 1) THEN 1 ELSE 0
  IN IF pass.i < Len(pass.queue)
     THEN /\ pass' = [pass EXCEPT
                        !.i = @ + 1,
                        !.pc = Stage(pass.queue[pass.i + 1]),
                        !.successCount = @ + (IF succeeded THEN 1 ELSE 0),
                        !.errorCount = @ + failed]
          /\ localStorage' = ls
          /\ hist' = h
          /\ UNCHANGED <<isSyncing, summary>>
     ELSE /\ pass' = IdlePass
          /\ localStorage' = setLastSync(storageOK, ls, now)
          /\ summary' =
               [successCount |-> pass.successCount + (IF succeeded THEN 1 ELSE 0),
                errorCount |-> pass.errorCount + failed]
          /\ isSyncing' = FALSE
          /\ hist' = PassReturned(notifySyncStatus([h EXCEPT !.rejected = FALSE,
                                                             !.finished = now],
                                                   "false"), ls)

\* the loop moves to the next operation of the snapshot, or the pass ends:
\* setLastSync, the summary toasts, isSyncing = false, notifySyncStatus(false).
\* ls is the store and h the history left by the operation just finished.
Advance(ls, h, succeeded) ==
  IF pass.i < Len(pass.queue)
  THEN /\ pass' = [pass EXCEPT
                     !.i = @ + 1,
                     !.pc = Stage(pass.queue[pass.i + 1]),
                     !.successCount = @ + (IF succeeded THEN 1 ELSE 0),
                     !.errorCount = @ + (IF succeeded THEN 0 ELSE 1)]
       /\ localStorage' = ls
       /\ hist' = h
       /\ UNCHANGED <<isSyncing, summary>>
  ELSE /\ pass' = IdlePass
       /\ localStorage' = setLastSync(storageOK, ls, now)
       /\ summary' =
            [successCount |-> pass.successCount + (IF succeeded THEN 1 ELSE 0),
             errorCount |-> pass.errorCount + (IF succeeded THEN 0 ELSE 1)]
       /\ isSyncing' = FALSE
       /\ hist' = PassReturned(notifySyncStatus([h EXCEPT !.rejected = FALSE,
                                                          !.finished = now],
                                                "false"), ls)

OnSuccess(ls) ==
  Advance(AfterSuccess(storageOK, ls, CurrentOp),
          [hist EXCEPT !.attempts[CurrentOp.id] = Cap(@ + 1),
                       !.applied[CurrentOp.id] = Cap(@ + 1),
                       !.passLog = Append(@, CurrentOp.id),
                       !.tempDoc[CurrentOp.id] =
                          IF CurrentOp.type = "CREATE" THEN nextRemote + 1 ELSE @],
          TRUE)

OnFailure ==
  Advance(AfterFailure(storageOK, localStorage, CurrentOp),
          [hist EXCEPT !.attempts[CurrentOp.id] = Cap(@ + 1)],
          FALSE)

\* processDeleteOperation throwing like processUpdateOperation
AbsentOutcome_strict(type) == "throw"

\* what processUpdateOperation / processDeleteOperation do when getDoc shows
\* no document: the update throws, the delete returns
AbsentOutcome(type) == IF type = "UPDATE" THEN "throw" ELSE "return"

\* processOperation rejects without a remote call: missing data, missing
\* documentId, unknown type
SyncThrow ==
  /\ pass.pc = "throw"
  /\ OnFailure
  /\ UNCHANGED <<storageOK, onLine, now, remote, nextRemote, nextId, inflight, monitor>>

\* the getDoc of processUpdateOperation / processDeleteOperation rejects
SyncGetDocFail ==
  /\ pass.pc = "getDoc"
  /\ OnFailure
  /\ UNCHANGED <<storageOK, onLine, now, remote, nextRemote, nextId, inflight, monitor>>

\* the getDoc resolves: the update goes on when the document exists and fails
\* when it does not; the delete goes on when it exists and is done when not
SyncGetDocOk ==
  /\ pass.pc = "getDoc"
  /\ LET op == CurrentOp
         exists == RemoteExists(remote, op.collection, op.documentId)
     IN IF exists
        THEN /\ pass' = [pass EXCEPT !.pc = "write"]
             /\ UNCHANGED <<localStorage, isSyncing, summary, hist>>
        ELSE IF AbsentOutcome(op.type) = "throw"
        THEN OnFailure
        ELSE OnSuccess(removeCachedDocument(storageOK, localStorage,
                                            op.collection, op.documentId))
  /\ UNCHANGED <<storageOK, onLine, now, remote, nextRemote, nextId, inflight, monitor>>

\* the store after processCreateOperation's addDoc resolved with newId
CreateApplied(ok, ls, op, newId, t) ==
  cacheDocument(ok, ls, op.collection, newId,
                Merge(Spread(op.data), [id |-> newId]), t)

\* the store after processUpdateOperation's updateDoc resolved
UpdateApplied(ok, ls, op, t) ==
  IF Truthy(op.data)
  THEN LET cachedData == getCachedDocument(ok, ls, op.collection, op.documentId)
       IN IF Truthy(cachedData)
          THEN cacheDocument(ok, ls, op.collection, op.documentId,
                             Merge(Spread(cachedData), Spread(op.data)), t)
          ELSE ls
  ELSE ls

\* the addDoc / updateDoc / deleteDoc of the operation rejects
SyncWriteFail ==
  /\ pass.pc = "write"
  /\ OnFailure
  /\ UNCHANGED <<storageOK, onLine, now, remote, nextRemote, nextId, inflight, monitor>>

\* the addDoc / updateDoc / deleteDoc of the operation resolves
SyncWriteOk ==
  /\ pass.pc = "write"
  /\ LET op == CurrentOp
     IN CASE op.type = "CREATE" ->
               /\ nextRemote < MaxRemote
               /\ nextRemote' = nextRemote + 1
               /\ remote' = RemoteAdd(remote, op.collection,
                                      RemoteId(nextRemote + 1), Spread(op.data))
               /\ OnSuccess(CreateApplied(storageOK, localStorage, op,
                                          RemoteId(nextRemote + 1), now))
          [] op.type = "UPDATE" ->
               \* updateDoc rejects when the document is gone
               /\ RemoteExists(remote, op.collection, op.documentId)
               /\ remote' = RemoteUpdate(remote, op.collection, op.documentId,
                                         Spread(op.data))
               /\ OnSuccess(UpdateApplied(storageOK, localStorage, op, now))
               /\ UNCHANGED nextRemote
          [] OTHER ->
               /\ remote' = RemoteDelete(remote, op.collection, op.documentId)
               /\ OnSuccess(removeCachedDocument(storageOK, localStorage,
                                                 op.collection, op.documentId))
               /\ UNCHANGED nextRemote
  /\ UNCHANGED <<storageOK, onLine, now, nextId, inflight, monitor>>

(***************************************************************************)
(* OfflineDataService (the facade).                                        *)
(***************************************************************************)
isOnline == onLine

\* document ids the application can pass: those it was given
IdsInUse ==
  KnownIds \cup {TempId(n) : n \in 1..nextId} \cup {RemoteId(n) : n \in 1..nextRemote}

\* the ids update and delete are called with: also the empty string, with
\* which doc() throws
DocInputs == IdsInUse \cup {NoId}

\* a facade call enqueues: the operation gets the next nanoid
Enqueue(ls, operation) == addToQueue(storageOK, ls, operation, nextId + 1, now)

NoteEnqueued(h) ==
  IF isSyncing THEN [h EXCEPT !.enqueuedInPass = @ \cup {nextId + 1}] ELSE h

Called(h) == [h EXCEPT !.calls = @ + 1]

\* a Delete is about to be queued for the document id: remembered when the
\* id is a temporary one whose Create no pass has applied yet
NoteDeleted(h, documentId) ==
  IF documentId[1] = "temp" /\ h.tempDoc[documentId[2]] = 0
  THEN [h EXCEPT !.gone = @ \cup {documentId[2]}]
  ELSE h

\* the facade calls write methods outside any try block: what they throw
\* reaches the facade's caller
NoteWrites(h) ==
  [h EXCEPT !.raised = @ \/ (WriteOutcome(storageOK) = "raise")]

\* convertFirestoreData on a document: Timestamp values become ISO strings
convertFirestoreData(data) ==
  [k \in DOMAIN data |->
     IF data[k][1] = "Timestamp" THEN Iso(data[k][2]) ELSE data[k]]

\* createDocument, the offline handling: temporary id, cache, queue
CreateOffline(collectionName, data, h) ==
  LET tempId == TempId(nextId + 1)
      ls1 == cacheDocument(storageOK, localStorage, collectionName, tempId,
                           Merge(data, [id |-> tempId, createdAt |-> Iso(now),
                                        _isOffline |-> Bool(TRUE)]), now)
      ls2 == Enqueue(ls1, [type |-> "CREATE", collection |-> collectionName,
                           documentId |-> Undefined,
                           data |-> Obj(Merge(data, [createdAt |-> Iso(now)]))])
  IN /\ localStorage' = ls2
     /\ nextId' = nextId + 1
     /\ hist' = NoteWrites(NoteEnqueued([h EXCEPT !.tempDoc[nextId + 1] = 0]))

\* updateDocument / deleteDocument, the offline handling; ls is the store
\* the earlier part of the call left
UpdateOffline(collectionName, documentId, updates, ls, h) ==
  /\ localStorage' =
       Enqueue(ls, [type |-> "UPDATE", collection |-> collectionName,
                    documentId |-> documentId,
                    data |-> Obj(Merge(updates, [updatedAt |-> Iso(now)]))])
  /\ nextId' = nextId + 1
  /\ hist' = NoteWrites(NoteEnqueued(h))

\* the offline handling of deleteDocument that first takes the operations
\* queued for the same document out of the queue
DeleteOffline_purge(collectionName, documentId, ls, h) ==
  /\ localStorage' =
       Enqueue([ls EXCEPT ![OPERATION_QUEUE] =
                  Arr(SelectSeq(getOperationQueue(storageOK, ls),
                                LAMBDA op : op.collection # collectionName
                                            \/ op.documentId # documentId))],
               [type |-> "DELETE", collection |-> collectionName,
                documentId |-> documentId, data |-> Null])
  /\ nextId' = nextId + 1
  /\ hist' = NoteWrites(NoteEnqueued(h))

DeleteOffline(collectionName, documentId, ls, h) ==
  /\ localStorage' =
       Enqueue(ls, [type |-> "DELETE", collection |-> collectionName,
                    documentId |-> documentId, data |-> Null])
  /\ nextId' = nextId + 1
  /\ hist' = NoteWrites(NoteEnqueued(h))

Suspend(call) == inflight' = Append(inflight, call)
\* the suspended calls that write, and those that read
Writes(calls) == Cardinality({i \in 1..Len(calls) : calls[i].kind # "GET"})
Reads(calls) == Cardinality({i \in 1..Len(calls) : calls[i].kind = "GET"})
Resume(i) ==
  inflight' = [k \in 1..(Len(inflight) - 1) |->
                 IF k < i THEN inflight[k] ELSE inflight[k + 1]]

\* the optimistic cache write at the top of updateDocument
UpdateOptimistic(ok, ls, collectionName, documentId, updates, t) ==
  LET cachedData == getCachedDocument(ok, ls, collectionName, documentId)
  IN IF Truthy(cachedData)
     THEN cacheDocument(ok, ls, collectionName, documentId,
                        Merge(Merge(Spread(cachedData), updates),
                              [updatedAt |-> Iso(t)]), t)
     ELSE ls

\* createDocument(collectionName, data) is called while online: suspends on addDoc
CreateOnline(collectionName, data) ==
  /\ hist.calls < MaxOps
  /\ isOnline
  /\ Writes(inflight) < MaxInflight
  /\ Suspend([kind |-> "CREATE", collection |-> collectionName,
              id |-> NoId, data |-> data, cached |-> Null])
  /\ hist' = Called(hist)
  /\ UNCHANGED <<storageOK, localStorage, onLine, now, remote, nextRemote, nextId,
                 isSyncing, pass, summary, monitor>>

\* createDocument(collectionName, data) is called while offline: runs to its end
CreateWhileOffline(collectionName, data) ==
  /\ hist.calls < MaxOps
  /\ ~isOnline
  /\ CreateOffline(collectionName, data, Called(hist))
  /\ UNCHANGED <<storageOK, onLine, now, remote, nextRemote, isSyncing, pass, summary,
                 inflight, monitor>>

CreateDocument ==
  \E collectionName \in Collections, data \in CreatePayloads :
    CreateOnline(collectionName, data) \/ CreateWhileOffline(collectionName, data)

\* the addDoc of the i-th suspended call, a createDocument, resolves
CreateResolved(i) ==
  LET call == inflight[i]
      newId == RemoteId(nextRemote + 1)
  IN /\ call.kind = "CREATE"
     /\ Resume(i)
     /\ nextRemote < MaxRemote
     /\ nextRemote' = nextRemote + 1
     /\ remote' = RemoteAdd(remote, call.collection, newId,
                            Merge(call.data, [createdAt |-> Ts(now)]))
     /\ localStorage' =
          cacheDocument(storageOK, localStorage, call.collection, newId,
                        Merge(call.data, [id |-> newId, createdAt |-> Iso(now)]),
                        now)
     /\ UNCHANGED <<storageOK, onLine, now, nextId, isSyncing, pass, summary, hist, monitor>>

\* the addDoc rejects: the offline handling runs
CreateRejected(i) ==
  LET call == inflight[i]
  IN /\ call.kind = "CREATE"
     /\ Resume(i)
     /\ CreateOffline(call.collection, call.data, hist)
     /\ UNCHANGED <<storageOK, onLine, now, remote, nextRemote, isSyncing, pass, summary, monitor>>

CreateResolve == \E i \in 1..Len(inflight) : CreateResolved(i) \/ CreateRejected(i)

\* updateDocument(collectionName, documentId, updates) is called
UpdateCalled(collectionName, documentId, updates) ==
  LET ls1 == UpdateOptimistic(storageOK, localStorage, collectionName,
                              documentId, updates, now)
  IN /\ hist.calls < MaxOps
     /\ IF isOnline
        THEN /\ Writes(inflight) < MaxInflight
             /\ Suspend([kind |-> "UPDATE", collection |-> collectionName,
                         id |-> documentId, data |-> updates, cached |-> Null,
                         seen |-> nextId])
             /\ localStorage' = ls1
             /\ hist' = Called(hist)
             /\ UNCHANGED nextId
        ELSE /\ UpdateOffline(collectionName, documentId, updates, ls1, Called(hist))
             /\ UNCHANGED inflight
     /\ UNCHANGED <<storageOK, onLine, now, remote, nextRemote, isSyncing, pass, summary, monitor>>

UpdateDocument ==
  \E collectionName \in Collections, documentId \in DocInputs, updates \in Patches :
    UpdateCalled(collectionName, documentId, updates)

\* updateDocument without the return after its updateDoc: the resolved call
\* falls through to the offline handling
UpdateResolved_fallthrough(i) ==
  LET call == inflight[i]
  IN /\ call.kind = "UPDATE"
     /\ Resume(i)
     /\ RemoteExists(remote, call.collection, call.id)
     /\ remote' = RemoteUpdate(remote, call.collection, call.id,
                               Merge(call.data, [updatedAt |-> Ts(now)]))
     /\ UpdateOffline(call.collection, call.id, call.data, localStorage, hist)
     /\ UNCHANGED <<storageOK, onLine, now, nextRemote, isSyncing, pass, summary, monitor>>

\* the updates to the document of the call that were in the queue when the
\* call was made (call.seen is the number of ids drawn by then) and still are
OlderQueued(call) ==
  LET queue == getOperationQueue(TRUE, localStorage)
  IN {queue[k].id : k \in {j \in 1..Len(queue) :
                             /\ queue[j].type = "UPDATE"
                             /\ queue[j].collection = call.collection
                             /\ queue[j].documentId = call.id
                             /\ queue[j].id <= call.seen}}

\* the updateDoc of the i-th suspended call resolves (the document exists)
UpdateResolved(i) ==
  LET call == inflight[i]
  IN /\ call.kind = "UPDATE"
     /\ Resume(i)
     /\ RemoteExists(remote, call.collection, call.id)
     /\ remote' = RemoteUpdate(remote, call.collection, call.id,
                               Merge(call.data, [updatedAt |-> Ts(now)]))
     /\ hist' = [hist EXCEPT !.overtaken = @ \cup OlderQueued(call)]
     /\ UNCHANGED <<storageOK, localStorage, onLine, now, nextRemote, nextId,
                    isSyncing, pass, summary, monitor>>

\* the updateDoc rejects: the offline handling runs
UpdateRejected(i) ==
  LET call == inflight[i]
  IN /\ call.kind = "UPDATE"
     /\ Resume(i)
     /\ UpdateOffline(call.collection, call.id, call.data, localStorage, hist)
     /\ UNCHANGED <<storageOK, onLine, now, remote, nextRemote, isSyncing, pass, summary, monitor>>

UpdateResolve == \E i \in 1..Len(inflight) : UpdateResolved(i) \/ UpdateRejected(i)

\* deleteDocument(collectionName, documentId) is called
DeleteCalled(collectionName, documentId) ==
  LET ls1 == removeCachedDocument(storageOK, localStorage, collectionName,
                                  documentId)
  IN /\ hist.calls < MaxOps
     /\ IF isOnline
        THEN /\ Writes(inflight) < MaxInflight
             /\ Suspend([kind |-> "DELETE", collection |-> collectionName,
                         id |-> documentId, data |-> EmptyObj, cached |-> Null])
             /\ localStorage' = ls1
             /\ hist' = Called(hist)
             /\ UNCHANGED nextId
        ELSE /\ DeleteOffline(collectionName, documentId, ls1,
                              NoteDeleted(Called(hist), documentId))
             /\ UNCHANGED inflight
     /\ UNCHANGED <<storageOK, onLine, now, remote, nextRemote, isSyncing, pass, summary, monitor>>

DeleteDocument ==
  \E collectionName \in Collections, documentId \in DocInputs :
    DeleteCalled(collectionName, documentId)

\* the deleteDoc of the i-th suspended call resolves
DeleteResolved(i) ==
  LET call == inflight[i]
  IN /\ call.kind = "DELETE"
     /\ Resume(i)
     /\ call.id # NoId
     /\ remote' = RemoteDelete(remote, call.collection, call.id)
     /\ UNCHANGED <<storageOK, localStorage, onLine, now, nextRemote, nextId,
                    isSyncing, pass, summary, hist, monitor>>

\* the deleteDoc rejects: the offline handling runs
DeleteRejected(i) ==
  LET call == inflight[i]
  IN /\ call.kind = "DELETE"
     /\ Resume(i)
     /\ DeleteOffline(call.collection, call.id, localStorage,
                      NoteDeleted(hist, call.id))
     /\ UNCHANGED <<storageOK, onLine, now, remote, nextRemote, isSyncing, pass, summary, monitor>>

DeleteResolve == \E i \in 1..Len(inflight) : DeleteResolved(i) \/ DeleteRejected(i)

\* setDocument(collectionName, documentId, data) is called: the cache is
\* written, then updateDoc is awaited (online) or the update is queued
SetCalled(collectionName, documentId, data) ==
  LET ls1 == cacheDocument(storageOK, localStorage, collectionName, documentId,
                           Merge(data, [id |-> documentId,
                                        updatedAt |-> Iso(now)]), now)
  IN /\ hist.calls < MaxOps
     /\ IF isOnline
        THEN /\ Writes(inflight) < MaxInflight
             /\ Suspend([kind |-> "SET", collection |-> collectionName,
                         id |-> documentId, data |-> data, cached |-> Null])
             /\ localStorage' = ls1
             /\ hist' = NoteWrites(Called(hist))
             /\ UNCHANGED nextId
        ELSE /\ UpdateOffline(collectionName, documentId, data, ls1, Called(hist))
             /\ UNCHANGED inflight
     /\ UNCHANGED <<storageOK, onLine, now, remote, nextRemote, isSyncing, pass,
                    summary, monitor>>

SetDocument ==
  \E collectionName \in Collections, documentId \in DocInputs,
     data \in CreatePayloads :
    SetCalled(collectionName, documentId, data)

\* the updateDoc of the i-th suspended call, a setDocument, resolves (the
\* document exists)
SetResolved(i) ==
  LET call == inflight[i]
  IN /\ call.kind = "SET"
     /\ Resume(i)
     /\ RemoteExists(remote, call.collection, call.id)
     /\ remote' = RemoteUpdate(remote, call.collection, call.id,
                               Merge(call.data, [updatedAt |-> Ts(now)]))
     /\ UNCHANGED <<storageOK, localStorage, onLine, now, nextRemote, nextId,
                    isSyncing, pass, summary, monitor, hist>>

\* the updateDoc rejects: the offline handling runs
SetRejected(i) ==
  LET call == inflight[i]
  IN /\ call.kind = "SET"
     /\ Resume(i)
     /\ UpdateOffline(call.collection, call.id, call.data, localStorage, hist)
     /\ UNCHANGED <<storageOK, onLine, now, remote, nextRemote, isSyncing, pass,
                    summary, monitor>>

SetResolve == \E i \in 1..Len(inflight) : SetResolved(i) \/ SetRejected(i)

\* what getDocument returns without a remote read: the cached value it held
GetOfflineResult(ok, ls, collectionName, documentId) ==
  getCachedDocument(ok, ls, collectionName, documentId)

\* what a getDocument that got no fresh value leaves to remember: "bad" when
\* it did not return the value cached before the call, else "hit" when there
\* was such a value and "miss" when it returned null; the worst case so far
\* is kept
ReadNote(old, result, before) ==
  LET this == IF result # before THEN "bad"
              ELSE IF before # Null THEN "hit" ELSE "miss"
      rank == [none |-> 0, miss |-> 1, hit |-> 2, bad |-> 3]
  IN IF rank[this] > rank[old] THEN this ELSE old

\* getDocument is called while online: reads the cache, suspends on getDoc
GetOnline ==
  /\ isOnline
  /\ Reads(inflight) < MaxReads
  /\ \E collectionName \in Collections, documentId \in IdsInUse :
       Suspend([kind |-> "GET", collection |-> collectionName,
                id |-> documentId, data |-> EmptyObj,
                cached |-> GetOfflineResult(storageOK, localStorage,
                                            collectionName, documentId),
                before |-> getCachedDocument(TRUE, localStorage,
                                             collectionName, documentId)])
  /\ UNCHANGED <<storageOK, localStorage, onLine, now, remote, nextRemote, nextId,
                 isSyncing, pass, summary, hist, monitor>>

\* getDocument is called while offline: returns the cached value
GetWhileOffline ==
  /\ ~isOnline
  /\ \E collectionName \in Collections, documentId \in IdsInUse :
       hist' = [hist EXCEPT !.read =
                  ReadNote(@,
                           GetOfflineResult(storageOK, localStorage,
                                            collectionName, documentId),
                           getCachedDocument(TRUE, localStorage,
                                             collectionName, documentId))]
  /\ UNCHANGED <<storageOK, localStorage, onLine, now, remote, nextRemote, nextId,
                 isSyncing, pass, summary, inflight, monitor>>

GetDocument == GetOnline \/ GetWhileOffline

\* getDocument without its try/catch: a rejected getDoc reaches the caller
GetResult_rethrow(call, resolved) ==
  IF ~resolved THEN [t |-> "raise"]
  ELSE IF RemoteExists(remote, call.collection, call.id)
  THEN Obj(Merge([id |-> call.id],
                 convertFirestoreData(remote[<<call.collection, call.id>>])))
  ELSE call.cached

\* what the resumed getDocument returns
GetResult(call, resolved) ==
  IF resolved /\ RemoteExists(remote, call.collection, call.id)
  THEN Obj(Merge([id |-> call.id],
                 convertFirestoreData(remote[<<call.collection, call.id>>])))
  ELSE call.cached

\* the getDoc of getDocument resolves or rejects
GetResolve ==
  /\ \E i \in 1..Len(inflight), resolved \in BOOLEAN :
       LET call == inflight[i]
           fresh == resolved /\ RemoteExists(remote, call.collection, call.id)
       IN /\ call.kind = "GET"
          /\ Resume(i)
          /\ localStorage' =
               IF fresh
               THEN cacheDocument(storageOK, localStorage, call.collection,
                                  call.id, GetResult(call, resolved).v, now)
               ELSE localStorage
          /\ hist' = [hist EXCEPT !.read =
                        IF resolved THEN @
                        ELSE ReadNote(@, GetResult(call, resolved), call.before)]
  /\ UNCHANGED <<storageOK, onLine, now, remote, nextRemote, nextId, isSyncing,
                 pass, summary, monitor>>

(***************************************************************************)
(* useNetworkStatus (the network monitor) and OfflineProvider.             *)
(***************************************************************************)
\* before the hook is mounted there is no status, no timer and no listener
NotMounted ==
  [mounted |-> FALSE, isOnline |-> FALSE, isReconnecting |-> FALSE,
   lastOnline |-> Null, lastOffline |-> Null,
   timers |-> 0,         \* pending 3000 ms timers of updateStatus
   autoSync |-> FALSE]   \* the 1000 ms timeout of OfflineProvider is pending

\* the status useState starts with; stored is getNetworkStatus()
InitialStatus(online, stored) ==
  [NotMounted EXCEPT
     !.mounted = TRUE,
     !.isOnline = online,
     !.lastOnline = IF Truthy(stored) /\ stored.v.isOnline
                    THEN Obj(stored.v.timestamp) ELSE Null,
     !.lastOffline = IF Truthy(stored) /\ ~stored.v.isOnline
                     THEN Obj(stored.v.timestamp) ELSE Null]

\* updateStatus without its setTimeout
updateStatus_notimer(m, online, t) ==
  [m EXCEPT !.isOnline = online,
            !.isReconnecting = ~online /\ m.isOnline,
            !.lastOnline = IF online THEN Obj(t) ELSE @,
            !.lastOffline = IF ~online THEN Obj(t) ELSE @]

\* updateStatus setting isReconnecting on every change of isOnline
updateStatus_anyChange(m, online, t) ==
  [m EXCEPT !.isOnline = online,
            !.isReconnecting = online # m.isOnline,
            !.lastOnline = IF online THEN Obj(t) ELSE @,
            !.lastOffline = IF ~online THEN Obj(t) ELSE @,
            !.timers = IF ~online THEN @ + 1 ELSE @]

\* updateStatus(isOnline): the new status, and one more 3000 ms timer when
\* the signal is an offline one
updateStatus(m, online, t) ==
  [m EXCEPT !.isOnline = online,
            !.isReconnecting = ~online /\ m.isOnline,
            !.lastOnline = IF online THEN Obj(t) ELSE @,
            !.lastOffline = IF ~online THEN Obj(t) ELSE @,
            !.timers = IF ~online THEN @ + 1 ELSE @]

\* the auto-sync effect that starts the timeout without looking at the status
AutoSyncEffect_offlineOnly(prev, m, ls) ==
  IF prev.mounted /\ prev.isOnline = m.isOnline
     /\ prev.isReconnecting = m.isReconnecting
  THEN m
  ELSE [m EXCEPT !.autoSync = ~m.isOnline /\ ~m.isReconnecting
                              /\ Len(getOperationQueue(storageOK, ls)) > 0]

\* the auto-sync effect of OfflineProvider after the render that shows m in
\* place of prev: it runs when isOnline or isReconnecting changed, clears
\* the timeout it set before and sets a new one when the client is online,
\* not reconnecting and the queue is not empty
AutoSyncEffect(prev, m, ls) ==
  IF prev.mounted /\ prev.isOnline = m.isOnline
     /\ prev.isReconnecting = m.isReconnecting
  THEN m
  ELSE [m EXCEPT !.autoSync = m.isOnline /\ ~m.isReconnecting
                              /\ Len(getOperationQueue(storageOK, ls)) > 0]

\* OfflineProvider is mounted: useState, the effect of useNetworkStatus
\* (listeners, updateStatus(navigator.onLine)), addSyncListener and the
\* auto-sync effect
MonitorMount ==
  /\ ~monitor.mounted
  /\ (~onLine => monitor.timers < MaxTimers)
  /\ localStorage' = setNetworkStatus(storageOK, localStorage, onLine, now)
  /\ monitor' =
       AutoSyncEffect(NotMounted,
                      updateStatus(InitialStatus(onLine,
                                     getNetworkStatus(storageOK, localStorage)),
                                   onLine, now),
                      localStorage')
  /\ hist' = [hist EXCEPT !.listeners = @ \cup {"provider"}]
  /\ UNCHANGED <<storageOK, onLine, now, remote, nextRemote, nextId, isSyncing,
                 pass, summary, inflight>>

\* a 3000 ms timer of updateStatus fires (the oldest one first)
ReconnectTimer ==
  /\ monitor.timers > 0
  /\ monitor' = AutoSyncEffect(monitor,
                               [monitor EXCEPT !.timers = @ - 1,
                                               !.isReconnecting = FALSE],
                               localStorage)
  /\ hist' = [hist EXCEPT !.since = IF @ > 0 THEN @ - 1 ELSE 0]
  /\ UNCHANGED <<storageOK, localStorage, onLine, now, remote, nextRemote,
                 nextId, isSyncing, pass, summary, inflight>>

\* the 1000 ms timeout of the auto-sync effect fires
AutoSync ==
  /\ monitor.autoSync
  /\ SyncStart([hist EXCEPT !.owed = FALSE])
  /\ monitor' = [monitor EXCEPT !.autoSync = FALSE]

(***************************************************************************)
(* OfflineIndicator.                                                       *)
(***************************************************************************)
\* OfflineIndicator is mounted under the provider: its isSyncing state
\* starts false, its syncStats are read from the store, its listener is
\* added and its auto-sync effect runs for the first time; its own call of
\* useNetworkStatus stores the status once more and shows the same
\* isOnline as the provider's
IndicatorMount ==
  /\ monitor.mounted
  /\ hist.indicator.pending < 0
  /\ localStorage' = setNetworkStatus(storageOK, localStorage, onLine, now)
  /\ hist' = IndicatorEffect(monitor.isOnline, hist, monitor.isOnline,
               [hist EXCEPT !.listeners = @ \cup {"indicator"},
                            !.told["indicator"] = "none",
                            !.indicator.pending =
                               Len(getOperationQueue(storageOK, localStorage))])
  /\ UNCHANGED <<storageOK, onLine, now, remote, nextRemote, nextId, isSyncing,
                 pass, summary, inflight, monitor>>

\* OfflineIndicator is unmounted: the unsubscribe handle is called, the
\* interval and the timeout are cleared
IndicatorUnmount ==
  /\ hist.indicator.pending >= 0
  /\ hist' = [hist EXCEPT !.listeners = @ \ {"indicator"},
                          !.indicator = InitHist.indicator]
  /\ UNCHANGED <<storageOK, localStorage, onLine, now, remote, nextRemote,
                 nextId, isSyncing, pass, summary, inflight, monitor>>

\* the 5000 ms interval of OfflineIndicator: setSyncStats(getSyncStats())
IndicatorPoll ==
  /\ hist.indicator.pending >= 0
  /\ hist' = IndicatorEffect(monitor.isOnline, hist, monitor.isOnline,
               [hist EXCEPT !.indicator.pending =
                  Len(getOperationQueue(storageOK, localStorage))])
  /\ UNCHANGED <<storageOK, localStorage, onLine, now, remote, nextRemote,
                 nextId, isSyncing, pass, summary, inflight, monitor>>

\* the auto-sync timeout of OfflineIndicator fires: handleSync calls
\* syncOfflineOperations; when that returns at once (a pass is running or
\* the queue is empty) handleSync goes on to setSyncStats(getSyncStats()),
\* otherwise it does so when the pass has ended
IndicatorSync ==
  /\ hist.indicator.timeout
  /\ LET fired == [hist EXCEPT !.indicator.timeout = FALSE]
         atOnce == \/ SyncRejected(isSyncing)
                   \/ Len(getOperationQueue(storageOK, localStorage)) = 0
     IN SyncStart(IF atOnce
                  THEN IndicatorEffect(monitor.isOnline, fired, monitor.isOnline,
                         [fired EXCEPT !.indicator.pending =
                            Len(getOperationQueue(storageOK, localStorage))])
                  ELSE [fired EXCEPT !.indicator.awaiting = TRUE])
  /\ UNCHANGED monitor

(***************************************************************************)
(* The environment.                                                        *)
(***************************************************************************)
\* the browser flips navigator.onLine and dispatches the online event:
\* handleOnline runs when the monitor listens
GoOnline ==
  /\ ~onLine
  /\ onLine' = TRUE
  /\ IF monitor.mounted
     THEN /\ localStorage' = setNetworkStatus(storageOK, localStorage, TRUE, now)
          /\ monitor' = AutoSyncEffect(monitor, updateStatus(monitor, TRUE, now),
                                       localStorage')
          /\ hist' = IndicatorEffect(monitor.isOnline, hist, TRUE,
                        [hist EXCEPT !.owed =
                           ~monitor.isOnline /\ ~isSyncing
                           /\ Len(getOperationQueue(storageOK, localStorage)) > 0])
     ELSE UNCHANGED <<localStorage, monitor, hist>>
  /\ UNCHANGED <<storageOK, now, remote, nextRemote, nextId, isSyncing, pass,
                 summary, inflight>>

\* the offline event: handleOffline runs when the monitor listens
GoOffline ==
  /\ onLine
  /\ onLine' = FALSE
  /\ IF monitor.mounted
     THEN /\ monitor.timers < MaxTimers
          /\ localStorage' = setNetworkStatus(storageOK, localStorage, FALSE, now)
          /\ monitor' = AutoSyncEffect(monitor, updateStatus(monitor, FALSE, now),
                                       localStorage')
          /\ hist' = IndicatorEffect(monitor.isOnline, hist, FALSE,
                        [hist EXCEPT !.owed = FALSE,
                                     !.since = IF monitor.isOnline
                                               THEN monitor'.timers ELSE @])
     ELSE UNCHANGED <<localStorage, monitor, hist>>
  /\ UNCHANGED <<storageOK, now, remote, nextRemote, nextId, isSyncing, pass,
                 summary, inflight>>

\* localStorage stops accepting writes (disabled, quota) and recovers
StorageFails ==
  /\ storageOK
  /\ hist.faults < MaxFaults
  /\ storageOK' = FALSE
  /\ hist' = [hist EXCEPT !.faults = @ + 1]
  /\ UNCHANGED <<localStorage, onLine, now, remote, nextRemote, nextId,
                 isSyncing, pass, summary, inflight, monitor>>

StorageRecovers ==
  /\ ~storageOK
  /\ storageOK' = TRUE
  /\ UNCHANGED <<localStorage, onLine, now, remote, nextRemote, nextId,
                 isSyncing, pass, summary, inflight, hist, monitor>>

\* the user confirms "clear offline data" in OfflineIndicator:
\* clearAllOfflineData
ClearAllOfflineData ==
  /\ localStorage' = clearAll(storageOK, localStorage)
  /\ hist' = [hist EXCEPT !.cleared =
                 @ \cup ({op.id : op \in Range(getOperationQueue(TRUE, localStorage))}
                           \ (IF pass.pc = "idle" THEN {} ELSE {CurrentOp.id}))]
  /\ UNCHANGED <<storageOK, onLine, now, remote, nextRemote, nextId, isSyncing,
                 pass, summary, inflight, monitor>>

\* the stored queue text is damaged inside its k-th record
CorruptRecord ==
  /\ localStorage[OPERATION_QUEUE].t = "array"
  /\ \E k \in 1..Len(localStorage[OPERATION_QUEUE].v) :
       localStorage' =
         [localStorage EXCEPT ![OPERATION_QUEUE] =
            Corrupt(SelectSeq(@.v, LAMBDA op : op.id # localStorage[OPERATION_QUEUE].v[k].id))]
  /\ UNCHANGED <<storageOK, onLine, now, remote, nextRemote, nextId, isSyncing,
                 pass, summary, inflight, monitor, hist>>

\* time passes
Tick ==
  /\ now < MaxNow
  /\ now' = now + 1
  /\ UNCHANGED <<storageOK, localStorage, onLine, remote, nextRemote, nextId,
                 isSyncing, pass, summary, inflight, hist, monitor>>

(***************************************************************************)
(* Specifications.                                                         *)
(***************************************************************************)
Init ==
  /\ storageOK = TRUE
  /\ localStorage = [k \in STORAGE_KEYS |-> Null]
  /\ onLine \in BOOLEAN
  /\ now = 1
  /\ remote = [p \in Collections \X KnownIds |-> SeedDoc]
  /\ nextRemote = 0
  /\ nextId = 0
  /\ isSyncing = FALSE
  /\ pass = IdlePass
  /\ summary = [successCount |-> 0, errorCount |-> 0]
  /\ inflight = <<>>
  /\ monitor = NotMounted
  /\ hist = InitHist

Next ==
  \/ SyncCall
  \/ SyncThrow
  \/ SyncGetDocOk
  \/ SyncGetDocFail
  \/ SyncWriteOk
  \/ SyncWriteFail
  \/ CreateDocument
  \/ CreateResolve
  \/ UpdateDocument
  \/ UpdateResolve
  \/ DeleteDocument
  \/ DeleteResolve
  \/ GoOnline
  \/ GoOffline

\* local storage works throughout; the application writes and syncs
Spec == Init /\ [][Next]_vars

\* the application writes and reads through the facade while no sync pass
\* is triggered
NextRead ==
  \/ CreateDocument
  \/ CreateResolve
  \/ UpdateDocument
  \/ UpdateResolve
  \/ DeleteDocument
  \/ DeleteResolve
  \/ GetOnline
  \/ GetWhileOffline
  \/ GetResolve
  \/ GoOnline
  \/ GoOffline

SpecRead == Init /\ [][NextRead]_vars

\* local storage may fail and recover at any moment
NextFaulty == Next \/ StorageFails \/ StorageRecovers

SpecFaulty == Init /\ [][NextFaulty]_vars

\* a record of the stored queue may be damaged at any moment
NextCorrupt == Next \/ CorruptRecord

SpecCorrupt == Init /\ [][NextCorrupt]_vars

\* the application deletes documents through the facade; the network
\* monitor is mounted and the queue is synced by the auto-sync effect only
NextMonitor ==
  \/ MonitorMount
  \/ GoOnline
  \/ GoOffline
  \/ ReconnectTimer
  \/ AutoSync
  \/ SyncThrow
  \/ SyncGetDocOk
  \/ SyncGetDocFail
  \/ SyncWriteOk
  \/ SyncWriteFail
  \/ DeleteDocument
  \/ DeleteResolve

SpecMonitor == Init /\ [][NextMonitor]_vars

\* the timers of the monitor and of the auto-sync effect fire
SpecMonitorLive ==
  Init /\ [][NextMonitor]_vars /\ WF_vars(ReconnectTimer) /\ WF_vars(AutoSync)

\* the application creates documents and syncs, the network monitor is
\* mounted and the user may clear the offline data
NextClear ==
  \/ SyncCall
  \/ SyncWriteOk
  \/ SyncWriteFail
  \/ CreateDocument
  \/ CreateResolve
  \/ GoOnline
  \/ GoOffline
  \/ MonitorMount
  \/ ReconnectTimer
  \/ ClearAllOfflineData

SpecClear == Init /\ [][NextClear]_vars

\* the application also writes whole documents with setDocument
NextFacade == Next \/ SetDocument \/ SetResolve

SpecFacade == Init /\ [][NextFacade]_vars

\* time passes between the steps
NextClock == Next \/ Tick

SpecClock == Init /\ [][NextClock]_vars

\* a remote call of the pass resolves or rejects, or processOperation throws
SyncStep ==
  SyncThrow \/ SyncGetDocOk \/ SyncGetDocFail \/ SyncWriteOk \/ SyncWriteFail

\* every remote call the pass waits for eventually resolves or rejects
SpecLive == Init /\ [][Next]_vars /\ WF_vars(SyncStep)

\* the application updates groups through the facade
UpdateGroup ==
  \E documentId \in DocInputs, updates \in Patches :
    UpdateCalled("groups", documentId, updates)

\* the application updates groups; OfflineProvider and OfflineIndicator are
\* mounted, the indicator at any time, and passes are started by the
\* timeouts of the two only
NextIndicator ==
  \/ MonitorMount
  \/ IndicatorMount
  \/ IndicatorPoll
  \/ IndicatorSync
  \/ GoOnline
  \/ GoOffline
  \/ ReconnectTimer
  \/ AutoSync
  \/ SyncThrow
  \/ SyncGetDocOk
  \/ SyncGetDocFail
  \/ SyncWriteOk
  \/ SyncWriteFail
  \/ UpdateGroup
  \/ UpdateResolve

SpecIndicator == Init /\ [][NextIndicator]_vars

\* the timers fire, the interval of the indicator ticks and the remote
\* calls of a pass return
SpecIndicatorLive ==
  /\ Init /\ [][NextIndicator]_vars
  /\ WF_vars(ReconnectTimer) /\ WF_vars(AutoSync)
  /\ WF_vars(IndicatorPoll) /\ WF_vars(IndicatorSync)
  /\ WF_vars(SyncStep)

\* the listeners of the sync status: OfflineIndicator comes and goes, and
\* passes are started by the two timeouts and by the sync button
NextListen ==
  \/ MonitorMount
  \/ IndicatorMount
  \/ IndicatorUnmount
  \/ IndicatorSync
  \/ GoOnline
  \/ GoOffline
  \/ AutoSync
  \/ SyncCall
  \/ SyncThrow
  \/ SyncGetDocOk
  \/ SyncGetDocFail
  \/ SyncWriteOk
  \/ SyncWriteFail
  \/ UpdateGroup
  \/ UpdateResolve

SpecListen == Init /\ [][NextListen]_vars

(***************************************************************************)
(* Properties.                                                             *)
(***************************************************************************)
\* the persisted queue, whether or not the store can be reached right now
StoredQueue == getOperationQueue(TRUE, localStorage)
QueueIds == {StoredQueue[k].id : k \in 1..Len(StoredQueue)}

RemoteInit == [p \in Collections \X KnownIds |-> SeedDoc]

\* the step ends a sync pass
PassEnds == pass.pc # "idle" /\ pass'.pc = "idle"

\* this step appended exactly one operation of the kind to the queue
Appended(kind) ==
  /\ Len(StoredQueue') = Len(StoredQueue) + 1
  /\ SubSeq(StoredQueue', 1, Len(StoredQueue)) = StoredQueue
  /\ StoredQueue'[Len(StoredQueue')].type = kind

\* the value read is a document that has every field of the payload
ShowsPayload(x, d) ==
  /\ x.t = "object"
  /\ \A k \in DOMAIN d : k \in DOMAIN x.v /\ x.v[k] = d[k]

\* C1: a sync pass in which nothing fails applies the operations of its
\* snapshot, all of them, one after the other, in the order they were
\* enqueued (ids are drawn in enqueue order); when no earlier pass applied
\* anything these are all the operations enqueued before the pass started.
C1_FifoDrain ==
  [][(PassEnds /\ summary'.errorCount = 0) =>
       /\ hist'.passLog = Ids(pass.queue)
       /\ \A i, j \in 1..Len(hist'.passLog) :
            i < j => hist'.passLog[i] < hist'.passLog[j]
       /\ (\A id \in OpIds : hist'.attempts[id] =
              (IF \E k \in 1..Len(hist'.passLog) : hist'.passLog[k] = id
               THEN 1 ELSE 0))
          => {hist'.passLog[k] : k \in 1..Len(hist'.passLog)} =
               (1..nextId') \ hist'.enqueuedInPass]_vars

\* C1 witness: a pass without failures has applied two operations
C1_Witness ==
  /\ pass.pc = "idle"
  /\ summary.errorCount = 0
  /\ hist.passLog = <<1, 2>>

\* C2: an operation is attempted in at most 3 passes; one that was never
\* applied stays in the queue, its retryCount the number of failed attempts,
\* until its third failure, and after the third attempt it is not in the queue.
C2_ThreeAttempts ==
  \A id \in OpIds :
    /\ hist.attempts[id] <= 3
    /\ hist.attempts[id] = 3 => id \notin QueueIds
    /\ (id <= nextId /\ hist.applied[id] = 0 /\ hist.attempts[id] < 3) =>
         \E k \in 1..Len(StoredQueue) :
           /\ StoredQueue[k].id = id
           /\ StoredQueue[k].retryCount = hist.attempts[id]

\* C2 witness: an operation failed three times and is gone
C2_Witness ==
  \E id \in OpIds :
    /\ hist.attempts[id] = 3
    /\ hist.applied[id] = 0
    /\ id \notin QueueIds
    /\ pass.pc = "idle"

\* C3: no queued operation is successfully applied to the remote store more
\* than once, also when local storage fails in between.
C3_AppliedOnce == \A id \in OpIds : hist.applied[id] <= 1

\* C4: a call of syncOfflineOperations made while isSyncing is true applies
\* nothing to the remote store, leaves the queue and the running pass alone
\* and notifies no listener.
C4_NoReentrantSync ==
  [][(isSyncing /\ SyncCall) =>
       /\ UNCHANGED <<localStorage, remote, nextRemote, isSyncing, pass, summary>>
       /\ hist'.notified = hist.notified
       /\ hist'.passLog = hist.passLog]_vars

\* C4 witness: a call was turned away while a pass is running
C4_Witness == isSyncing /\ hist.rejected /\ pass.pc # "idle"

\* C5: an operation enqueued while a pass is suspended is not attempted by
\* that pass and stays in the queue, behind every older operation left.
C5_EnqueuedDuringPass ==
  \A id \in hist.enqueuedInPass :
    /\ hist.attempts[id] = 0
    /\ id \in QueueIds
    /\ \A i, j \in 1..Len(StoredQueue) :
         (StoredQueue[i].id = id /\ StoredQueue[j].id < id) => j < i

\* C5 witness: a pass has ended, an older operation that failed in it and an
\* operation enqueued during it are both in the queue
C5_Witness ==
  /\ pass.pc = "idle"
  /\ hist.enqueuedInPass = {2}
  /\ Len(StoredQueue) = 2
  /\ StoredQueue[1].retryCount = 1
  /\ StoredQueue[2].id = 2

\* C6: a createDocument, updateDocument or deleteDocument call ends either
\* with its remote call resolved and the queue as it was, or (offline, or
\* remote call rejected) with exactly one operation of its kind appended.
C6_OneOutcome ==
  [][/\ \A i \in 1..Len(inflight) :
          /\ (CreateResolved(i) \/ UpdateResolved(i) \/ DeleteResolved(i))
               => StoredQueue' = StoredQueue
          /\ CreateRejected(i) => Appended("CREATE")
          /\ UpdateRejected(i) => Appended("UPDATE")
          /\ DeleteRejected(i) => Appended("DELETE")
     /\ (\E c \in Collections, d \in CreatePayloads : CreateWhileOffline(c, d))
          => Appended("CREATE")
     /\ (~isOnline /\ UpdateDocument) => Appended("UPDATE")
     /\ (~isOnline /\ DeleteDocument) => Appended("DELETE")]_vars

\* C6 witness: of two calls made, one ended with its remote create done and
\* one with an operation queued
C6_Witness ==
  /\ hist.calls = 2
  /\ Len(inflight) = 0
  /\ nextRemote = 1
  /\ Len(StoredQueue) = 1
  /\ \A id \in OpIds : hist.attempts[id] = 0

\* C7: for any collection and payload, right after createDocument ran
\* offline, getDocument(collection, tempId) returns the payload (it makes no
\* remote call while offline: it returns the cached value).
C7_OfflineCreateReadable ==
  [][\A c \in Collections, d \in CreatePayloads :
       CreateWhileOffline(c, d) =>
         ShowsPayload(GetOfflineResult(storageOK', localStorage', c,
                                       TempId(nextId')), d)]_vars

\* C8: when a pass applies a queued Create and the remote store assigns id
\* R, the operation has left the queue and the cache resolves
\* (collection, R) to the created payload.
C8_SyncedCreateResolvable ==
  [][(SyncWriteOk /\ CurrentOp.type = "CREATE") =>
       /\ CurrentOp.id \notin QueueIds'
       /\ ShowsPayload(getCachedDocument(storageOK', localStorage',
                                         CurrentOp.collection,
                                         RemoteId(nextRemote')),
                       Spread(CurrentOp.data))]_vars

\* C9: when a pass applies a queued Update, the operation has left the queue
\* and the document cached for (collection, documentId), if there is one,
\* shows every field of the patch with the patched value.
C9_SyncedUpdateCached ==
  [][(SyncWriteOk /\ CurrentOp.type = "UPDATE") =>
       /\ CurrentOp.id \notin QueueIds'
       /\ LET cached == getCachedDocument(storageOK', localStorage',
                                          CurrentOp.collection,
                                          CurrentOp.documentId)
          IN Truthy(cached) => ShowsPayload(cached, Spread(CurrentOp.data))]_vars

\* C10: a queued Delete whose document the remote store reports absent
\* counts as a success: it leaves the queue, the pass counts one more
\* success and no more errors.
C10_DeleteAbsentSucceeds ==
  [][(/\ SyncGetDocOk
      /\ CurrentOp.type = "DELETE"
      /\ ~RemoteExists(remote, CurrentOp.collection, CurrentOp.documentId)) =>
       /\ CurrentOp.id \notin QueueIds'
       /\ hist'.applied[CurrentOp.id] = hist.applied[CurrentOp.id] + 1
       /\ IF pass'.pc = "idle"
          THEN /\ summary'.errorCount = pass.errorCount
               /\ summary'.successCount = pass.successCount + 1
          ELSE /\ pass'.errorCount = pass.errorCount
               /\ pass'.successCount = pass.successCount + 1]_vars

\* C10 witness: the two calls made were both queued and one pass applied
\* both without an error, yet every document the remote store started with
\* is still there unmodified and at most one was added: one of the two was a
\* delete of a document the store did not have
C10_Witness ==
  /\ pass.pc = "idle"
  /\ hist.calls = 2
  /\ hist.passLog = <<1, 2>>
  /\ summary = [successCount |-> 2, errorCount |-> 0]
  /\ nextRemote <= 1
  /\ \A p \in DOMAIN RemoteInit : p \in DOMAIN remote /\ remote[p] = SeedDoc

\* the failed count of the running pass after this step
ErrorCountAfter ==
  IF pass'.pc = "idle" THEN summary'.errorCount ELSE pass'.errorCount

\* C11: a pass counts an operation as failed only in the step where the
\* operation's retryCount reaches 3 and it is dropped from the queue.
C11_FailedOnlyWhenDropped ==
  [][(pass.pc # "idle" /\ ErrorCountAfter > pass.errorCount) =>
       /\ CurrentOp.retryCount + 1 = 3
       /\ CurrentOp.id \notin QueueIds']_vars

\* C12: every call of syncOfflineOperations the guard lets through leaves the
\* last-sync timestamp at the time it finished, also the call that found the
\* queue empty and the pass in which every operation failed.
C12_LastSyncAlwaysSet == getLastSync(TRUE, localStorage) = hist.finished

\* C13: when a pass ends every operation of its snapshot has been attempted
\* in it, those after a failed one included: each has one more attempt than
\* the retryCount the snapshot shows.
C13_FailureDoesNotAbort ==
  [][PassEnds =>
       \A k \in 1..Len(pass.queue) :
         hist'.attempts[pass.queue[k].id] = pass.queue[k].retryCount + 1]_vars

\* C13 witness: in one pass the first operation failed and the second was
\* applied
C13_Witness ==
  /\ pass.pc = "idle"
  /\ summary = [successCount |-> 1, errorCount |-> 1]
  /\ hist.passLog = <<2>>
  /\ hist.attempts[1] = 1 /\ hist.applied[1] = 0
  /\ hist.attempts[2] = 1 /\ hist.applied[2] = 1

\* C14: a pass that has entered Syncing eventually is back at Idle:
\* isSyncing false and the listeners told so, whatever succeeded or failed.
C14_PassTerminates == isSyncing ~> (~isSyncing /\ hist.notified = 0)

\* C14 witness: a pass that met a success and a failure is over
C14_Witness ==
  /\ ~isSyncing
  /\ pass.pc = "idle"
  /\ hist.notified = 0
  /\ summary.successCount >= 1
  /\ summary.errorCount >= 1

\* C15: the persisted queue lists its operations in the order they were
\* enqueued (ids are drawn in that order), none of them twice.
C15_QueueInEnqueueOrder ==
  \A i, j \in 1..Len(StoredQueue) :
    i < j => StoredQueue[i].id < StoredQueue[j].id

\* C15 witness: two operations are queued, both with failed attempts behind
\* them: updateOperationRetry rewrote the queue three times
C15_Witness ==
  /\ Len(StoredQueue) = 2
  /\ StoredQueue[1].retryCount = 2
  /\ StoredQueue[2].retryCount = 1

\* the operation with the id in the persisted queue
QueuedOp(id) ==
  CHOOSE op \in {StoredQueue[k] : k \in 1..Len(StoredQueue)} : op.id = id

\* this step is a failed attempt of the operation
FailsNow(id) ==
  /\ pass.pc # "idle"
  /\ CurrentOp.id = id
  /\ ErrorCountAfter > pass.errorCount

\* C16: an operation enters the queue with retryCount 0; while it is queued
\* its retryCount grows by exactly 1 in each step where its attempt fails and
\* does not change in any other step.
C16_RetryCountSteps ==
  [][\A k \in 1..Len(StoredQueue') :
       LET op == StoredQueue'[k]
       IN IF op.id \in QueueIds
          THEN op.retryCount =
                 QueuedOp(op.id).retryCount + (IF FailsNow(op.id) THEN 1 ELSE 0)
          ELSE op.retryCount = 0]_vars

\* C16 witness: a queued operation has failed in two passes
C16_Witness ==
  \E k \in 1..Len(StoredQueue) :
    /\ StoredQueue[k].retryCount = 2
    /\ hist.attempts[StoredQueue[k].id] = 2
    /\ hist.applied[StoredQueue[k].id] = 0

\* the collections the cache keeps and the ids documents can have
CachedCollections == {"groups", "expenses", "users"}
AllIds ==
  KnownIds \cup {TempId(n) : n \in 1..MaxOps} \cup {RemoteId(n) : n \in 1..MaxRemote}

\* C17: the cache holds at most one entry for each (collection, id) of
\* groups, expenses and users: what is cached for a pair is one document,
\* never a list of several.
C17_OneEntryPerPair ==
  \A c \in CachedCollections, id \in AllIds :
    LET cached == getCachedDocument(TRUE, localStorage, c, id)
    IN cached.t = "array" => Len(cached.v) <= 1

\* C18: a getDocument call made offline, or whose remote read rejected,
\* returns the value that was cached for (collection, id) before the call
\* (null when there was none) and raises nothing.
C18_ReadFallsBackToCache == hist.read # "bad"

\* C18 witness: a getDocument that got no fresh value has returned the value
\* cached before the call
C18_Witness == hist.read = "hit"

WriteMade == nextId' # nextId \/ hist'.attempts # hist.attempts

\* C20: while local storage is unavailable every write of the Local Store
\* reports a storage-unavailable condition to its caller.
C20_UnavailableReported ==
  [][(~storageOK /\ WriteMade) => WriteOutcome(storageOK) = "unavailable"]_vars

(***************************************************************************)
(* Queue corruption.                                                       *)
(***************************************************************************)
\* C21: when one record of the stored queue cannot be deserialized, a sync
\* pass skips that record and still attempts every other operation of the
\* queue: the snapshot of a call the guard lets through holds the records
\* around the bad one
C21_BadRecordSkipped ==
  [][(SyncCall /\ ~isSyncing /\ localStorage[OPERATION_QUEUE].t = "corrupt")
       => Ids(pass'.queue) = Ids(localStorage[OPERATION_QUEUE].v)]_vars

(***************************************************************************)
(* The network monitor.                                                    *)
(***************************************************************************)
\* C22: whenever the network monitor goes from offline to online while the
\* queue is not empty, then a sync pass is started or is already running,
\* or the connectivity is lost again before the 1-second timeout has fired
C22_OnlineStartsSync == hist.owed ~> (isSyncing \/ ~monitor.isOnline)

\* the monitor saw offline and then online, and the pass the timeout
\* started is running
C22_Witness ==
  /\ monitor.mounted /\ monitor.isOnline /\ Truthy(monitor.lastOffline)
  /\ ~monitor.autoSync /\ ~hist.owed
  /\ isSyncing /\ pass.pc # "idle"

\* C23: every Online to Offline transition of the monitor sets
\* isReconnecting, an online signal clears it at once, it is clear once the
\* 3-second timer of that transition has fired, and it is always cleared
\* again
C23_ReconnectingCleared ==
  /\ [][/\ ((monitor.mounted /\ monitor.isOnline /\ ~monitor'.isOnline)
               => monitor'.isReconnecting)
         /\ ((~monitor.isOnline /\ monitor'.isOnline)
               => ~monitor'.isReconnecting)]_vars
  /\ [](monitor.isReconnecting => hist.since > 0)
  /\ (monitor.isReconnecting ~> ~monitor.isReconnecting)

\* the monitor went from online to offline and the timer of that transition
\* has fired
C23_Witness ==
  /\ monitor.mounted /\ ~monitor.isOnline /\ Truthy(monitor.lastOnline)
  /\ ~monitor.isReconnecting /\ monitor.timers = 0 /\ hist.since = 0

(***************************************************************************)
(* Clearing the store and its size.                                        *)
(***************************************************************************)
\* the store holds none of its four items
StoreEmpty == \A key \in STORAGE_KEYS : localStorage[key] = Null

\* C24: after clearAllOfflineData returns with storage available the queue
\* has length 0, no document is cached in any collection, the last sync
\* reads 0 and no network status is stored
C24_ClearAllEmpties ==
  [][(ClearAllOfflineData /\ storageOK) =>
       /\ Len(getOperationQueue(storageOK, localStorage')) = 0
       /\ \A c \in CachedCollections \cup Collections, id \in AllIds :
            ~Truthy(getCachedDocument(storageOK, localStorage', c, id))
       /\ getLastSync(storageOK, localStorage') = 0
       /\ getNetworkStatus(storageOK, localStorage') = Null]_vars

\* the four items were all stored and the clear removed them
C24_Witness ==
  /\ StoreEmpty
  /\ nextId > 0 /\ nextRemote > 0 /\ monitor.mounted /\ hist.finished > 0

\* C25: getStorageInfo on a store none of whose four items holds data
\* returns used = 0, available = 5242880 and percentage = 0, and used is
\* always the sum of the serialized sizes of the four items
C25_StorageInfo ==
  LET info == getStorageInfo(storageOK, localStorage)
  IN /\ StoreEmpty =>
          info = [used |-> 0, available |-> 5242880, percentage |-> Ratio(0, 1)]
     /\ info.used = ItemSize(OFFLINE_DATA, localStorage[OFFLINE_DATA])
                      + ItemSize(OPERATION_QUEUE, localStorage[OPERATION_QUEUE])
                      + ItemSize(NETWORK_STATUS, localStorage[NETWORK_STATUS])
                      + ItemSize(LAST_SYNC, localStorage[LAST_SYNC])

\* the store is empty again after it held a queued operation
C25_Witness == StoreEmpty /\ nextId > 0 /\ ~isSyncing

(***************************************************************************)
(* The facade and the cache.                                               *)
(***************************************************************************)
\* C26: deleteDocument(collection, id) removes the cached entry for
\* (collection, id) before any remote call, and when the call returns (the
\* deleteDoc resolved, it rejected, or the client was offline) the cache has
\* no entry for (collection, id), whatever ran while it waited
C26_DeleteLeavesNoEntry ==
  [][/\ \A c \in Collections, id \in DocInputs :
          DeleteCalled(c, id) =>
            ~Truthy(getCachedDocument(storageOK, localStorage', c, id))
     /\ \A i \in 1..Len(inflight) :
          (DeleteResolved(i) \/ DeleteRejected(i)) =>
            ~Truthy(getCachedDocument(storageOK, localStorage',
                                      inflight[i].collection, inflight[i].id))]_vars

\* C27: updateDocument(collection, id, patch) merges the patch into the
\* document cached for (collection, id) before any remote call: right after
\* the call started the cached document shows every patched field with its
\* new value, and neither the resolved nor the rejected remote update
\* changes the cache
C27_UpdateMergedFirst ==
  [][/\ \A c \in Collections, id \in DocInputs, u \in Patches :
          (/\ UpdateCalled(c, id, u)
           /\ Truthy(getCachedDocument(storageOK, localStorage, c, id)))
            => ShowsPayload(getCachedDocument(storageOK, localStorage', c, id), u)
     /\ \A i \in 1..Len(inflight) :
          (UpdateResolved(i) \/ UpdateRejected(i)) =>
            localStorage'[OFFLINE_DATA] = localStorage[OFFLINE_DATA]]_vars

(***************************************************************************)
(* The facade and the queue.                                               *)
(***************************************************************************)
\* a step of createDocument, updateDocument, deleteDocument or setDocument
FacadeStep ==
  \/ CreateDocument \/ CreateResolve
  \/ UpdateDocument \/ UpdateResolve
  \/ DeleteDocument \/ DeleteResolve
  \/ SetDocument \/ SetResolve

\* the stored queue keeps every operation it held, unchanged and in place
QueueKept ==
  /\ Len(StoredQueue') >= Len(StoredQueue)
  /\ SubSeq(StoredQueue', 1, Len(StoredQueue)) = StoredQueue

DroppedNow ==
  /\ pass.pc # "idle"
  /\ hist'.attempts[CurrentOp.id] > hist.attempts[CurrentOp.id]
  /\ hist'.applied[CurrentOp.id] = hist.applied[CurrentOp.id]
  /\ CurrentOp.id \in QueueIds /\ CurrentOp.id \notin QueueIds'

\* C29: when an operation is dropped from the queue because its retryCount
\* reached 3 the cache is left as it was: what the facade wrote for that
\* document stays readable
C29_DropKeepsCache ==
  [][DroppedNow =>
       /\ QueuedOp(CurrentOp.id).retryCount = RetryCeiling - 1
       /\ localStorage'[OFFLINE_DATA] = localStorage[OFFLINE_DATA]]_vars

\* the queued update of a group that was created online was dropped after
\* three failed attempts and the cache still shows the patched name
C29_Witness ==
  /\ \E id \in OpIds :
       /\ hist.attempts[id] = RetryCeiling /\ hist.applied[id] = 0
       /\ id \notin QueueIds
  /\ \E n \in 1..MaxRemote :
       ShowsPayload(getCachedDocument(storageOK, localStorage, "groups",
                                      RemoteId(n)),
                    [name |-> Str("B")])

(***************************************************************************)
(* Order of updates at the remote store.                                   *)
(***************************************************************************)
\* C30: of two updates to the same document issued through the facade, U1
\* then U2, the remote store never applies U1 after U2: a pass never applies
\* a queued update that was already waiting in the queue when the facade
\* made an update call which it has since applied directly
C30_NoStaleUpdate ==
  [][\A id \in OpIds :
       hist'.applied[id] > hist.applied[id] => id \notin hist.overtaken]_vars

(***************************************************************************)
(* updateOperationRetry as a function of the stored queue.                 *)
(***************************************************************************)
\* C31: updateOperationRetry(id, n) leaves the queue as it was when no
\* queued operation has the id; when one has, the queue keeps its length
\* and order, every other operation is unchanged, and the operation with
\* the id differs from what it was in retryCount only, which is n
C31_RetryUpdateFrame ==
  \A id \in 1..(MaxOps + 1), n \in 0..RetryCeiling :
    LET after == getOperationQueue(TRUE,
                   updateOperationRetry(TRUE, localStorage, id, n))
    IN /\ Len(after) = Len(StoredQueue)
       /\ \A k \in 1..Len(StoredQueue) :
            /\ after[k].id = StoredQueue[k].id
            /\ after[k].id # id => after[k] = StoredQueue[k]
            /\ after[k].id = id =>
                 /\ after[k].retryCount = n
                 /\ \A f \in (DOMAIN StoredQueue[k]) \ {"retryCount"} :
                      after[k][f] = StoredQueue[k][f]
       /\ (id \notin QueueIds) => after = StoredQueue

\* the queue holds an operation that failed once, in front of one that was
\* never attempted
C31_Witness ==
  /\ Len(StoredQueue) = 2
  /\ StoredQueue[1].retryCount = 1 /\ hist.attempts[StoredQueue[1].id] = 1
  /\ StoredQueue[2].retryCount = 0 /\ hist.attempts[StoredQueue[2].id] = 0
  /\ ~isSyncing

(***************************************************************************)
(* The counts of a pass.                                                   *)
(***************************************************************************)
\* C32: in every completed pass the succeeded count plus the failed count
\* is the number of operations of the snapshot, and each operation of the
\* snapshot is attempted exactly once: the pass starts at the first
\* operation, every attempt is an attempt of the current operation and
\* moves the pass to the next one, and the pass ends with the attempt of
\* the last one
C32_CountsCoverSnapshot ==
  [][/\ (pass.pc = "idle" /\ pass'.pc # "idle") =>
          (pass'.i = 1 /\ pass'.successCount + pass'.errorCount = 0
           /\ \A j, k \in 1..Len(pass'.queue) :
                pass'.queue[j].id = pass'.queue[k].id => j = k)
     /\ \A id \in OpIds :
          hist'.attempts[id] # hist.attempts[id] =>
            /\ pass.pc # "idle" /\ id = CurrentOp.id
            /\ hist'.attempts[id] = hist.attempts[id] + 1
            /\ IF pass.i < Len(pass.queue)
               THEN /\ pass'.i = pass.i + 1 /\ pass'.queue = pass.queue
                    /\ pass'.successCount + pass'.errorCount = pass.i
               ELSE PassEnds
     /\ (pass.pc # "idle" /\ pass'.pc # "idle" /\ pass'.i # pass.i) =>
          hist'.attempts[CurrentOp.id] # hist.attempts[CurrentOp.id]
     /\ PassEnds =>
          /\ pass.i = Len(pass.queue)
          /\ hist'.attempts[CurrentOp.id] # hist.attempts[CurrentOp.id]
          /\ summary'.successCount + summary'.errorCount = Len(pass.queue)]_vars

\* a pass over two operations has ended with one success and one failure
C32_Witness ==
  /\ pass.pc = "idle" /\ ~isSyncing
  /\ summary.successCount = 1 /\ summary.errorCount = 1
  /\ Len(hist.passLog) = 1

(***************************************************************************)
(* The reconnecting flag while the client stays offline.                   *)
(***************************************************************************)
\* C33: while the client stays offline after an Online to Offline
\* transition, isReconnecting stays true until the 3-second timer that this
\* transition scheduled fires: whenever the flag is cleared while the
\* monitor stays offline, the timer of the latest transition has fired
\* (hist.since, the position of that timer among the pending ones, is 0)
C33_ClearedByOwnTimer ==
  [][(/\ monitor.mounted /\ ~monitor.isOnline /\ monitor.isReconnecting
      /\ ~monitor'.isOnline /\ ~monitor'.isReconnecting)
       => hist'.since = 0]_vars

(***************************************************************************)
(* Operations queued against a temporary id.                               *)
(***************************************************************************)
\* the queued operation with the id is of the kind and names the temporary
\* id of a document that createDocument made offline and whose queued
\* Create a pass has applied
OnSyncedTempDoc(id, kind) ==
  /\ id \in QueueIds
  /\ LET op == QueuedOp(id)
     IN /\ op.type = kind
        /\ op.documentId[1] = "temp"
        /\ hist.tempDoc[op.documentId[2]] > 0

\* the remote id the queued Create of the document of the operation got
RemoteOf(op) == RemoteId(hist.tempDoc[op.documentId[2]])

\* C34: an Update queued against the temporary id of a document that was
\* created offline is applied to the remote document the queued Create
\* produced once both have been processed: when it leaves the queue after
\* the Create was applied, its attempt has succeeded (it is not dropped as
\* a failure) and the remote document the Create made shows its fields
C34_TempUpdateApplied ==
  [][\A id \in OpIds :
       (OnSyncedTempDoc(id, "UPDATE") /\ id \notin QueueIds') =>
         /\ hist'.applied[id] > hist.applied[id]
         /\ RemoteExists(remote', QueuedOp(id).collection, RemoteOf(QueuedOp(id)))
         /\ ShowsPayload(Obj(remote'[<<QueuedOp(id).collection,
                                       RemoteOf(QueuedOp(id))>>]),
                         [name |-> QueuedOp(id).data.v.name])]_vars

\* a Delete of the document with the temporary id of this number is queued
DeleteQueuedFor(c) ==
  \E k \in 1..Len(StoredQueue) :
    StoredQueue[k].type = "DELETE" /\ StoredQueue[k].documentId = TempId(c)

\* C35: a document that is created and then deleted by its temporary id
\* while offline does not exist in the remote store and has no cache entry
\* under any id once both queued operations have left the queue
C35_CreatedThenDeletedIsGone ==
  \A c \in OpIds :
    (c \in hist.gone /\ c \notin QueueIds /\ ~DeleteQueuedFor(c)) =>
      \A collection \in Collections :
        /\ ~Truthy(getCachedDocument(TRUE, localStorage, collection, TempId(c)))
        /\ hist.tempDoc[c] > 0 =>
             /\ ~RemoteExists(remote, collection, RemoteId(hist.tempDoc[c]))
             /\ ~Truthy(getCachedDocument(TRUE, localStorage, collection,
                                         RemoteId(hist.tempDoc[c])))

(***************************************************************************)
(* Clearing the store while a pass runs.                                   *)
(***************************************************************************)
\* C36: after clearAllOfflineData has returned, no operation that was
\* queued before the clear is applied to the remote store any more, also
\* when the clear happens while a pass is suspended on a remote call (the
\* operation whose remote call was under way during the clear is left out:
\* hist.cleared holds the others)
C36_ClearedNeverApplied ==
  [][\A id \in OpIds :
       hist'.applied[id] > hist.applied[id] => id \notin hist.cleared]_vars

(***************************************************************************)
(* Sync passes while the client stays online.                              *)
(***************************************************************************)
\* C37: while the client stays online and no pass is running, a non-empty
\* queue eventually causes a pass to start without a new offline-to-online
\* transition and without a manual request (with OfflineIndicator mounted:
\* its polled pendingOperations are what can start one), so a queued
\* operation that no pass has attempted yet is eventually attempted
C37_QueueEventuallySynced ==
  /\ (/\ hist.indicator.pending >= 0 /\ monitor.isOnline /\ ~isSyncing
      /\ Len(StoredQueue) > 0)
       ~> (isSyncing \/ ~monitor.isOnline \/ Len(StoredQueue) = 0)
  /\ \A id \in OpIds :
       (/\ hist.indicator.pending >= 0 /\ monitor.isOnline
        /\ id \in QueueIds /\ hist.attempts[id] = 0)
         ~> (hist.attempts[id] > 0 \/ ~monitor.isOnline)

(***************************************************************************)
(* The listeners of the sync status.                                       *)
(***************************************************************************)
\* C38: every listener registered with addSyncListener receives strictly
\* alternating notifications (each call of a listener carries true or
\* false and not the value of its previous call), a listener is called
\* only while it is subscribed, never after its unsubscribe handle was
\* called, and once a pass has ended the value last delivered to a
\* subscribed listener is getSyncStatus(), which is false
C38_ListenersAlternate ==
  /\ [][\A l \in Listeners :
          hist'.heard[l] # hist.heard[l] =>
            /\ l \in hist.listeners
            /\ hist'.told[l] \in {"true", "false"}
            /\ hist'.told[l] # hist.told[l]]_vars
  /\ [](~isSyncing => \A l \in hist.listeners : hist.told[l] # "true")

\* OfflineIndicator heard a pass end and was unmounted; the provider has
\* since heard the next pass start
C38_Witness ==
  /\ "indicator" \notin hist.listeners /\ hist.told["indicator"] = "false"
  /\ "provider" \in hist.listeners /\ hist.told["provider"] = "true"
  /\ hist.heard["provider"] # hist.heard["indicator"]
  /\ isSyncing

(***************************************************************************)
(* The status of the network monitor.                                      *)
(***************************************************************************)
\* C39: in every reachable state of the network monitor isReconnecting =
\* true implies isOnline = false: no sequence of online signals, offline
\* signals and timer expiries yields a status that is both online and
\* reconnecting
C39_ReconnectingIsOffline == monitor.isReconnecting => ~monitor.isOnline

\* the monitor went offline, online and offline again: it is reconnecting
\* and the timers of both offline signals are pending
C39_Witness ==
  /\ monitor.mounted /\ monitor.isReconnecting /\ ~monitor.isOnline
  /\ monitor.timers = 2 /\ hist.since = 2

====
